---- MODULE Spec2Model ----
(***************************************************************************)
(* MDBCatalog (src/mongo/db/storage/mdb_catalog.cpp): the in-memory map    *)
(* _catalogIdToEntryMap kept over the catalog record store _rs, mutated    *)
(* inside storage transactions whose recovery unit runs the registered     *)
(* changes on rollback; and the spill table exercised by                   *)
(* src/mongo/db/storage/spill_table_test.cpp, whose writes fail once its   *)
(* disk space action has fired.                                            *)
(***************************************************************************)
EXTENDS Integers, Sequences, FiniteSets, TLC

\* ------------------------------------------------------------------ bounds
\* RecordIds the record store may hand out.
MaxId == 3
\* Catalog calls (mutators and readers) made over a run.
MaxCalls == 2
\* Storage transactions begun over a run.
MaxTxns == 2
\* Catalog calls made over a run of one thread alone.
MaxSerialCalls == 3
\* Catalog calls made over a run that looks at one call.
MaxSingleCalls == 1

\* RecordIds the spill table assigns.
MaxRid == 2
\* Writes called on the spill table over a run.
MaxSpillOps == 4

\* spill_table_test.cpp: auto thresholdBytes = 1024
ThresholdBytes == 1024

\* ------------------------------------------------------------------ values
Threads == {"T1", "T2"}
NoThread == "none"
RecordIds == 1..MaxId

Collections == {"a", "b"}
StoreErrors == {"WriteConflict", "OutOfDiskSpace"}

NoNss == [db |-> "", coll |-> ""]
Nss(c) == [db |-> "db", coll |-> c]
NamespaceStrings == {Nss(c) : c \in Collections}

\* NamespaceStringUtil::parseFromStringExpectTenantIdInMultitenancyMode
\* (no tenant): "<db>.<coll>" is split at the first dot.
parseFromString(s) ==
    CASE s = "db.a" -> [db |-> "db", coll |-> "a"]
      [] s = "db.b" -> [db |-> "db", coll |-> "b"]
      [] OTHER -> NoNss

\* The idxIdent field of a catalog document: absent (eoo), or an object of
\* (index name, index ident) elements in document order.
NoIdxField == [has |-> FALSE, elems |-> <<>>]
IdxObj(es) == [has |-> TRUE, elems |-> es]

\* Records of _rs.  kind: "entry" a catalog document, "feature" the feature
\* document, "none" no record; in a write set also "untouched" / "deleted".
NoRow == [kind |-> "none", ns |-> "", ident |-> "", idx |-> NoIdxField]
FeatureDoc == [kind |-> "feature", ns |-> "", ident |-> "", idx |-> NoIdxField]
Untouched == [kind |-> "untouched", ns |-> "", ident |-> "", idx |-> NoIdxField]
Deleted == [kind |-> "deleted", ns |-> "", ident |-> "", idx |-> NoIdxField]
EntryRow(ns, ident, idx) == [kind |-> "entry", ns |-> ns, ident |-> ident, idx |-> idx]

TwoIndexes ==
    IdxObj(<< [name |-> "x_1", ident |-> "idxA"], [name |-> "y_1", ident |-> "idxB"] >>)

\* The index names callers ask getIndexIdent for: one that TwoIndexes has,
\* and not as its first element, and one that it has not.
IndexNames == {"y_1", "z_1"}

\* NamespaceStringUtil::serialize, the inverse of the parse on these names.
nsString(nss) == IF nss.coll = "a" THEN "db.a" ELSE "db.b"

\* What callers pass to _addEntry (ident, nss, catalogEntryObj): documents
\* that agree with the ident and namespace arguments, and one that does not.
AddInputs ==
    { [ident |-> "i1", nss |-> Nss("a"), row |-> EntryRow("db.a", "i1", NoIdxField)],
      [ident |-> "i2", nss |-> Nss("a"), row |-> EntryRow("db.a", "i2", NoIdxField)],
      [ident |-> "i2", nss |-> Nss("b"), row |-> EntryRow("db.a", "i1", NoIdxField)] }

\* What callers pass to importCatalogEntry (nss, catalogEntryObj).
ImportInputs ==
    { [nss |-> Nss("b"), row |-> EntryRow("db.b", "i2", TwoIndexes)],
      [nss |-> Nss("a"), row |-> EntryRow("db.b", "i1", IdxObj(<< >>))] }

\* MDBCatalog::EntryIdentifier, and the absence of a map element.
NoEntry == [present |-> FALSE, catalogId |-> 0, ident |-> "", nss |-> NoNss]
EntryIdentifier(id, ident, nss) ==
    [present |-> TRUE, catalogId |-> id, ident |-> ident, nss |-> nss]

EmptyMap == [id \in RecordIds |-> NoEntry]
EmptyStore == [id \in RecordIds |-> NoRow]
NoWrites == [id \in RecordIds |-> Untouched]

\* feature_document_util::isFeatureDocument
isFeatureDocument(obj) == obj.kind = "feature"

\* RecoveryUnit changes, in one list per transaction in registration order.
Change(kind, id, entry, ident, idents) ==
    [kind |-> kind, id |-> id, entry |-> entry, ident |-> ident, idents |-> idents]

\* A call in progress: the method, and the RecordId it was given where the
\* method has used it before its _rs operation.

\* The spill table's RecordIds and record data, and its empty record store.
SpillRids == 1..MaxRid
SpillData == {"x", "y"}
NoSpillRecords == [rid \in SpillRids |-> "none"]
\* What simulateAvailableDiskSpace is set to: below, at and above the
\* threshold.
Bytes == {ThresholdBytes - 1, ThresholdBytes, ThresholdBytes + 1}
\* What a spill table write answered: the method, its status, whether the
\* status came as a thrown DBException.
NoSpillRet == [op |-> "none", status |-> "none", threw |-> FALSE]
SpillRet(op, status, threw) == [op |-> op, status |-> status, threw |-> threw]
NoCall == [op |-> "none", id |-> 0, dbLockedIX |-> FALSE]

\* What a call handed back: its status, the RecordId and the entries it
\* returned, the ident and namespace it was given, (for commit / abort) the
\* kinds of the registered changes the recovery unit held, and the idents or
\* the document a reader returned.
NoArg == [ident |-> "", nss |-> NoNss]
NoRet == [op |-> "none", status |-> "none", id |-> 0, entries |-> << >>,
          arg |-> NoArg, ran |-> << >>, idents |-> << >>, row |-> NoRow,
          idxName |-> "", identForIndex |-> ""]
Ret(op, status, id, entries) ==
    [NoRet EXCEPT !.op = op, !.status = status, !.id = id, !.entries = entries]
RetOf(op, status, id, entries, ident, nss) ==
    [NoRet EXCEPT !.op = op, !.status = status, !.id = id, !.entries = entries,
                  !.arg = [ident |-> ident, nss |-> nss]]
RetEnd(op, chs) ==
    [NoRet EXCEPT !.op = op, !.status = "OK",
                  !.ran = [i \in 1..Len(chs) |-> chs[i].kind]]
\* What getAllIdents / getIndexIdents and getRawCatalogEntry hand back.
RetIdents(op, id, idents) ==
    [NoRet EXCEPT !.op = op, !.status = "OK", !.id = id, !.idents = idents]
\* What getIndexIdent hands back for the index name it was given: the
\* string, or the exception that left it.
RetIdent(op, status, id, idxName, identForIndex) ==
    [NoRet EXCEPT !.op = op, !.status = status, !.id = id, !.idxName = idxName,
                  !.identForIndex = identForIndex]
RetRow(op, id, row) ==
    [NoRet EXCEPT !.op = op, !.status = "OK", !.id = id, !.row = row]

VARIABLES
    store,       \* _rs: the committed records, RecordId -> row
    nextId,      \* _rs: the next RecordId insertRecord hands out
    map,         \* _catalogIdToEntryMap
    mutex,       \* holder of _catalogIdToEntryMapLock
    inited,      \* init() has run
    fatal,       \* "none", or what terminated the process
    physical,    \* KVEngine: idents that have physical storage
    active,      \* per thread: a storage transaction is open
    snap,        \* per thread: the transaction's read snapshot of _rs
    writes,      \* per thread: the transaction's uncommitted writes to _rs
    changes,     \* per thread: the recovery unit's registered changes
    pc,          \* per thread: "idle" or the _rs operation being executed
    call,        \* per thread: the catalog call in progress
    ret,         \* per thread: what the last call returned
    rsResult,    \* per thread: what _rs answered to the last call's operation
    drops,       \* per thread: idents dropped by the last rollback, in order
    mapAtBegin,  \* per thread: the map when the transaction began
    disturbed,   \* per thread: another thread changed the map since then
    doomed,      \* per thread: a call threw, the caller can only roll back
    mismatch,    \* some document written did not agree with the cached entry
    overlap,     \* two transactions have been open at once
    calls,       \* catalog calls made
    txns,        \* transactions begun
    limit,       \* catalog calls the run goes up to
    availableBytes, \* simulateAvailableDiskSpace: the bytes the monitor sees
    spillMade,   \* the spill table has been made
    spillFull,   \* SpillTable: its disk space action has fired
    spillRecords, \* SpillTable: RecordId -> data of its record store
    spillNextRid, \* SpillTable: the next RecordId insertRecords assigns
    spillRet,    \* what the last spill table write answered
    spillOps,    \* spill table writes called
    madeAt,      \* the available bytes when the spill table was made
    ranBelow,    \* runAllActions has run below the threshold since then
    ranAt        \* runAllActions has run exactly at the threshold since then

vars == << store, nextId, map, mutex, inited, fatal, physical, active, snap,
           writes, changes, pc, call, ret, rsResult, drops, mapAtBegin,
           disturbed, doomed, mismatch, overlap, calls, txns, limit,
           availableBytes, spillMade, spillFull, spillRecords, spillNextRid,
           spillRet, spillOps, madeAt, ranBelow, ranAt >>


\* ------------------------------------------------------------ record store
\* The records a transaction reads: its snapshot overlaid with its writes.
Visible(t) ==
    [id \in RecordIds |->
        IF writes[t][id].kind = "untouched" THEN snap[t][id]
        ELSE IF writes[t][id].kind = "deleted" THEN NoRow
        ELSE writes[t][id]]

\* Outside a transaction a read sees the committed records.
View(t) == IF active[t] THEN Visible(t) ELSE store

\* A write to a record another open transaction has written, or that was
\* committed after this transaction's snapshot.
WriteConflict(t, id) ==
    \/ \E u \in Threads \ {t} : active[u] /\ writes[u][id].kind # "untouched"
    \/ store[id] # snap[t][id]

\* The committed records once the transaction's writes are applied.
ApplyWrites(s, w) ==
    [id \in RecordIds |->
        IF w[id].kind = "untouched" THEN s[id]
        ELSE IF w[id].kind = "deleted" THEN NoRow
        ELSE w[id]]

\* The records a forward cursor yields, in RecordId order.
RECURSIVE CursorFrom(_, _)
CursorFrom(rows, id) ==
    IF id > MaxId THEN << >>
    ELSE IF rows[id].kind = "none" THEN CursorFrom(rows, id + 1)
    ELSE << [id |-> id, data |-> rows[id]] >> \o CursorFrom(rows, id + 1)

getCursor(rows) == CursorFrom(rows, 1)

\* --------------------------------------------------------- faulty variants
\* Plausible defects of the definitions that follow; each property below is
\* shown to fail when the definition it rests on is replaced by its variant.

\* AddIdentChange::rollback that erases nothing.
AddIdentChangeRollbackSkipped(m, catalogId) == m

\* removeEntry that leaves the element in the map.
removeEntryEraseSkipped(m, catalogId) == m

\* _addEntry that registers no AddIdentChange.
addEntryUnregistered(m, chs, id, ident, nss) ==
    [fatal |-> m[id].present,
     map |-> [m EXCEPT ![id] = EntryIdentifier(id, ident, nss)],
     changes |-> chs]

\* putRenamedEntry without its fassert.
putRenamedEntryUnasserted(status) == "none"

\* removeEntry that releases the lock before deleteRecord.
removeEntryUnlocked(t) == NoThread

\* removeEntry that takes every catalogId as found.
removeEntryFindAny(m, catalogId) == TRUE

\* _addEntry that does not test what insertRecord returned.
addEntryInsertNeverFailed(res) == FALSE

\* _addEntry that caches the entry without its namespace.
addEntryWithoutNss(m, chs, id, ident, nss) ==
    [fatal |-> m[id].present,
     map |-> [m EXCEPT ![id] = EntryIdentifier(id, ident, NoNss)],
     changes |-> Append(chs, Change("AddIdent", id, NoEntry, "", << >>))]

\* removeEntry's closure that reinserts nothing.
removeEntryRollbackSkipped(m, catalogId, entry) == m

\* putRenamedEntry's closure that leaves the new namespace in place.
putRenamedEntryRollbackSkipped(m, catalogId, fromName) ==
    [fatal |-> ~m[catalogId].present, map |-> m]

\* getNSSFromCatalog that never consults the map.
getNSSFromCatalogUncached(m, catalogId) == [found |-> FALSE, nss |-> NoNss]

\* importCatalogEntry's closure that drops the collection ident only.
importCatalogEntryOnRollbackCollectionOnly(chs, entry, indexIdents) ==
    Append(chs, Change("DropImport", 0, NoEntry, entry.ident, << >>))

\* initializeNewEntry that registers no drop of the ident it created.
initializeNewEntryOnRollbackSkipped(chs, entry) == chs

\* _importEntry without its invariant on the database lock.
importEntryInvariantSkipped(dbLockedIX) == "none"

\* putRenamedEntry that stores a new element made of the catalogId and the
\* new namespace.
putRenamedEntryLockedNewElement(m, chs, catalogId, toNss) ==
    [fatal |-> ~m[catalogId].present,
     map |-> [m EXCEPT ![catalogId] = EntryIdentifier(catalogId, "", toNss)],
     changes |-> Append(chs, Change("RenameBack", catalogId,
                                    EntryIdentifier(catalogId, "", m[catalogId].nss),
                                    "", << >>))]

\* _importEntry that caches the entry without its namespace.
importEntryWithoutNss(m, chs, id, nss, catalogEntry) ==
    [fatal |-> m[id].present,
     map |-> [m EXCEPT ![id] = EntryIdentifier(id, catalogEntry.ident, NoNss)],
     changes |-> Append(chs, Change("AddIdent", id, NoEntry, "", << >>))]

\* _addEntry that caches the entry without its ident.
addEntryWithoutIdent(m, chs, id, ident, nss) ==
    [fatal |-> m[id].present,
     map |-> [m EXCEPT ![id] = EntryIdentifier(id, "", nss)],
     changes |-> Append(chs, Change("AddIdent", id, NoEntry, "", << >>))]

\* getEntry without its invariant.
getEntryUnchecked(m, catalogId) == [fatal |-> FALSE, entry |-> m[catalogId]]

\* init that does not skip the feature document.
RECURSIVE initLoopNoSkip(_, _)
initLoopNoSkip(recs, m) ==
    IF recs = << >> THEN m
    ELSE LET record == Head(recs) IN
         initLoopNoSkip(Tail(recs),
                        [m EXCEPT ![record.id] =
                             EntryIdentifier(record.id, record.data.ident,
                                             parseFromString(record.data.ns))])

\* getAllIdents that leaves out the index idents.
RECURSIVE allIdentsLoopCollectionsOnly(_)
allIdentsLoopCollectionsOnly(recs) ==
    IF recs = << >> THEN << >>
    ELSE LET record == Head(recs) IN
         IF isFeatureDocument(record.data)
         THEN allIdentsLoopCollectionsOnly(Tail(recs))
         ELSE << record.data.ident >> \o allIdentsLoopCollectionsOnly(Tail(recs))

\* _getIndexIdents that returns the idents last first.
getIndexIdentsOfReversed(rawCatalogEntry) ==
    IF ~rawCatalogEntry.idx.has THEN << >>
    ELSE LET n == Len(rawCatalogEntry.idx.elems) IN
         [i \in 1..n |-> rawCatalogEntry.idx.elems[n + 1 - i].ident]

\* _addEntry without the invariant on the map insert.
addEntryInvariantDropped(m, chs, id, ident, nss) ==
    [fatal |-> FALSE,
     map |-> [m EXCEPT ![id] = EntryIdentifier(id, ident, nss)],
     changes |-> Append(chs, Change("AddIdent", id, NoEntry, "", << >>))]

\* AddIdentChange::commit that erases the entry as rollback does.
AddIdentChangeCommitErases(m, catalogId) == [m EXCEPT ![catalogId] = NoEntry]

\* AddIdentChange::rollback that clears the whole map.
AddIdentChangeRollbackClears(m, catalogId) == [id \in RecordIds |-> NoEntry]

\* _findRawEntry that seeks the nearest record at or after the RecordId.
findRawEntryNearest(rows, catalogId) ==
    LET later == {id \in RecordIds : id >= catalogId /\ rows[id].kind # "none"}
    IN IF later = {} THEN NoRow
       ELSE rows[CHOOSE id \in later : \A other \in later : id <= other]

\* A spill table whose disk space action is not run when it is made.
diskStateAtCreationNotRun(bytes, thresholdBytes) == {FALSE}

\* A disk space monitor whose actions never fire.
MonitorActsNever(bytes, thresholdBytes) == {FALSE}

\* getNSSFromCatalog that caches the record it read after the map missed.
getNSSFromCatalogRepopulates(m, catalogId, obj) ==
    IF obj.kind = "entry"
    THEN [m EXCEPT ![catalogId] =
             EntryIdentifier(catalogId, obj.ident, parseFromString(obj.ns))]
    ELSE m

\* removeEntry that erases the element before deleteRecord can throw.
removeEntryThrownErased(m, catalogId) == [m EXCEPT ![catalogId] = NoEntry]

\* putRenamedEntry without its invariant: operator[] makes the element.
putRenamedEntryLockedUnchecked(m, chs, catalogId, toNss) ==
    [fatal |-> FALSE,
     map |-> [m EXCEPT ![catalogId] = EntryIdentifier(catalogId, "", toNss)],
     changes |-> Append(chs, Change("RenameBack", catalogId,
                                    EntryIdentifier(catalogId, "", m[catalogId].nss),
                                    "", << >>))]

\* putUpdatedEntry that caches the namespace of the document it wrote.
putUpdatedEntryRecached(m, catalogId, catalogEntryObj) ==
    IF m[catalogId].present
    THEN [m EXCEPT ![catalogId].nss = parseFromString(catalogEntryObj.ns)]
    ELSE m

\* _importEntry that caches the namespace read from the document.
importEntryNssFromDocument(m, chs, id, nss, catalogEntry) ==
    [fatal |-> m[id].present,
     map |-> [m EXCEPT ![id] = EntryIdentifier(id, catalogEntry.ident,
                                               parseFromString(catalogEntry.ns))],
     changes |-> Append(chs, Change("AddIdent", id, NoEntry, "", << >>))]

\* removeEntry that unlocks by hand before its return, so that a throwing
\* deleteRecord leaves the lock with the thread.
removeEntryUnlockOnReturnOnly(t, threw) == IF threw THEN t ELSE NoThread

\* getIndexIdent that looks the name up only when idxIdent has it and treats
\* a document without idxIdent as one with an empty idxIdent.
getIndexIdentLenient(rows, catalogId, idxName) ==
    LET elems == rows[catalogId].idx.elems
        named == {i \in 1..Len(elems) : elems[i].name = idxName}
    IN IF named = {} THEN [status |-> "OK", identForIndex |-> ""]
       ELSE [status |-> "OK",
             identForIndex |-> elems[CHOOSE i \in named : \A j \in named : i <= j].ident]

\* ------------------------------------------------------- MDBCatalog (pure)
\* MDBCatalog::init: every record but the feature document becomes a map
\* element keyed by its RecordId.
RECURSIVE initLoop(_, _)
initLoop(recs, m) ==
    IF recs = << >> THEN m
    ELSE LET record == Head(recs) IN
         IF isFeatureDocument(record.data) THEN initLoop(Tail(recs), m)
         ELSE initLoop(Tail(recs),
                       [m EXCEPT ![record.id] =
                            EntryIdentifier(record.id, record.data.ident,
                                            parseFromString(record.data.ns))])

init(rows, m) == initLoop(getCursor(rows), m)

\* MDBCatalog::getAllCatalogEntries
RECURSIVE allEntriesLoop(_)
allEntriesLoop(recs) ==
    IF recs = << >> THEN << >>
    ELSE LET record == Head(recs) IN
         IF isFeatureDocument(record.data) THEN allEntriesLoop(Tail(recs))
         ELSE << EntryIdentifier(record.id, record.data.ident,
                                 parseFromString(record.data.ns)) >>
              \o allEntriesLoop(Tail(recs))

getAllCatalogEntries(rows) == allEntriesLoop(getCursor(rows))

\* MDBCatalog::_getIndexIdents
getIndexIdentsOf(rawCatalogEntry) ==
    IF ~rawCatalogEntry.idx.has THEN << >>
    ELSE [i \in 1..Len(rawCatalogEntry.idx.elems) |->
             rawCatalogEntry.idx.elems[i].ident]

\* Status::isOK / StatusWith::isOK, as tested after insertRecord.
isOK(status) == status = "OK"

\* fassert(msgid, status): the process terminates unless the status is OK.
fassert(msgid, status) == IF status = "OK" THEN "none" ELSE msgid

\* MDBCatalog::_addEntry and _importEntry: if (!res.isOK()) return
\* res.getStatus().
addEntryInsertFailed(res) == ~isOK(res)
importEntryInsertFailed(res) == ~isOK(res)

\* MDBCatalog::putUpdatedEntry and putRenamedEntry: fassert(28521, status)
\* and fassert(28522, status).
putUpdatedEntryFassert(status) == fassert("fassert28521", status)
putRenamedEntryFassert(status) == fassert("fassert28522", status)

\* MDBCatalog::_importEntry: invariant(isDbLockedForMode(nss.dbName(),
\* MODE_IX)), its first statement.
importEntryInvariant(dbLockedIX) ==
    IF dbLockedIX THEN "none" ELSE "invariantDbLockedIX"

\* MDBCatalog::_addEntry once insertRecord returned id: the invariant, the
\* map insert and registerChange(AddIdentChange).
addEntry(m, chs, id, ident, nss) ==
    [fatal |-> m[id].present,
     map |-> [m EXCEPT ![id] = EntryIdentifier(id, ident, nss)],
     changes |-> Append(chs, Change("AddIdent", id, NoEntry, "", << >>))]

\* MDBCatalog::_importEntry once insertRecord returned id; the ident is the
\* one read from the document.
importEntry(m, chs, id, nss, catalogEntry) ==
    [fatal |-> m[id].present,
     map |-> [m EXCEPT ![id] = EntryIdentifier(id, catalogEntry.ident, nss)],
     changes |-> Append(chs, Change("AddIdent", id, NoEntry, "", << >>))]

\* MDBCatalog::initializeNewEntry: the onRollback closure dropping the ident.
initializeNewEntryOnRollback(chs, entry) ==
    Append(chs, Change("DropIdent", 0, NoEntry, entry.ident, << >>))

\* MDBCatalog::importCatalogEntry: the onRollback closure dropping the
\* collection ident and every index ident.
importCatalogEntryOnRollback(chs, entry, indexIdents) ==
    Append(chs, Change("DropImport", 0, NoEntry, entry.ident, indexIdents))

\* MDBCatalog::removeEntry: the lookup, it != _catalogIdToEntryMap.end().
removeEntryFind(m, catalogId) == m[catalogId].present

\* MDBCatalog::removeEntry: who holds the lock_guard taken on entry while
\* deleteRecord runs.
removeEntryLock(t) == t

\* The holder of the lock after removeEntry's lock_guard goes out of scope,
\* at the return or when deleteRecord threw.
removeEntryUnlock(t, threw) == NoThread

\* MDBCatalog::removeEntry: the onRollback closure capturing the entry.
removeEntryOnRollback(chs, m, catalogId) ==
    Append(chs, Change("Reinsert", catalogId, m[catalogId], "", << >>))

\* MDBCatalog::removeEntry: _catalogIdToEntryMap.erase(it)
removeEntryErase(m, catalogId) == [m EXCEPT ![catalogId] = NoEntry]

\* MDBCatalog::removeEntry when deleteRecord throws: the erase that follows
\* it is not reached.
removeEntryThrown(m, catalogId) == m

\* MDBCatalog::putRenamedEntry under the map lock: the invariant, the new
\* namespace and the onRollback closure capturing the old one.
putRenamedEntryLocked(m, chs, catalogId, toNss) ==
    [fatal |-> ~m[catalogId].present,
     map |-> [m EXCEPT ![catalogId].nss = toNss],
     changes |-> Append(chs, Change("RenameBack", catalogId,
                                    EntryIdentifier(catalogId, "", m[catalogId].nss),
                                    "", << >>))]

\* MDBCatalog::_findRawEntry: seekExact, or the empty object.
findRawEntry(rows, catalogId) ==
    IF rows[catalogId].kind = "none" THEN NoRow ELSE rows[catalogId]

\* MDBCatalog::getRawCatalogEntry
getRawCatalogEntry(rows, catalogId) == findRawEntry(rows, catalogId)

\* MDBCatalog::getIndexIdents
getIndexIdents(rows, catalogId) == getIndexIdentsOf(findRawEntry(rows, catalogId))

\* BSONObj::operator[] / getField on the elements of an object: the first
\* element of that name, or the EOO element.
EOO == [eoo |-> TRUE, name |-> "", ident |-> ""]
getField(elems, name) ==
    LET named == {i \in 1..Len(elems) : elems[i].name = name}
    IN IF named = {} THEN EOO
       ELSE [eoo |-> FALSE, name |-> name,
             ident |-> elems[CHOOSE i \in named : \A j \in named : i <= j].ident]

\* BSONElement::Obj() on obj["idxIdent"]: the embedded object, or the
\* exception 10065 when the element is not an object (here: is missing).
BSONElementObj(idx) ==
    IF idx.has THEN [status |-> "OK", elems |-> idx.elems]
    ELSE [status |-> "exception10065", elems |-> << >>]

\* BSONElement::String(): the string of the element, or the exception 13111
\* when the element is not a string (here: is EOO).
BSONElementString(elem) ==
    IF elem.eoo THEN [status |-> "exception13111", str |-> ""]
    ELSE [status |-> "OK", str |-> elem.ident]

\* MDBCatalog::getIndexIdent: Obj() of obj["idxIdent"], then, unless that
\* object is empty, String() of its element named idxName.
getIndexIdent(rows, catalogId, idxName) ==
    LET obj == findRawEntry(rows, catalogId)
        idxIdent == BSONElementObj(obj.idx)
        s == BSONElementString(getField(idxIdent.elems, idxName))
    IN IF idxIdent.status # "OK"
       THEN [status |-> idxIdent.status, identForIndex |-> ""]
       ELSE IF idxIdent.elems = << >>
            THEN [status |-> "OK", identForIndex |-> ""]
            ELSE [status |-> s.status, identForIndex |-> s.str]

\* MDBCatalog::getAllIdents: for every record but the feature document its
\* ident, then the values under idxIdent when that is an object.
RECURSIVE allIdentsLoop(_)
allIdentsLoop(recs) ==
    IF recs = << >> THEN << >>
    ELSE LET record == Head(recs)
             obj == record.data
         IN IF isFeatureDocument(obj) THEN allIdentsLoop(Tail(recs))
            ELSE << obj.ident >>
                 \o (IF ~obj.idx.has THEN << >>
                     ELSE [i \in 1..Len(obj.idx.elems) |-> obj.idx.elems[i].ident])
                 \o allIdentsLoop(Tail(recs))

getAllIdents(rows) == allIdentsLoop(getCursor(rows))

\* MDBCatalog::getNSSFromCatalog: the lookup in the map under the lock.
getNSSFromCatalogCached(m, catalogId) ==
    [found |-> m[catalogId].present, nss |-> m[catalogId].nss]

\* MDBCatalog::getNSSFromCatalog once the map missed: the namespace parsed
\* from the record found, or tassert(9117800) on the empty object; the
\* feature document has no string under "ns".
getNSSFromCatalogRead(obj) ==
    IF obj.kind = "entry"
    THEN [status |-> "OK", nss |-> parseFromString(obj.ns)]
    ELSE [status |-> IF obj.kind = "none" THEN "tassert9117800"
                     ELSE "exception13111",
          nss |-> NoNss]

\* MDBCatalog::getNSSFromCatalog once the map missed: the map after the read
\* of obj; the method is const and stores nothing.
getNSSFromCatalogMap(m, catalogId, obj) == m

\* MDBCatalog::putUpdatedEntry: the map after the update of the record; the
\* method does not touch _catalogIdToEntryMap.
putUpdatedEntryMap(m, catalogId, catalogEntryObj) == m

\* MDBCatalog::getEntry
getEntry(m, catalogId) == [fatal |-> ~m[catalogId].present, entry |-> m[catalogId]]

\* ------------------------------------------------------ rollback handlers
\* AddIdentChange::rollback
AddIdentChangeRollback(m, catalogId) == [m EXCEPT ![catalogId] = NoEntry]

\* removeEntry's closure: _catalogIdToEntryMap[catalogId] = entry
removeEntryRollback(m, catalogId, entry) == [m EXCEPT ![catalogId] = entry]

\* putRenamedEntry's closure: the invariant, then it->second.nss = fromName
putRenamedEntryRollback(m, catalogId, fromName) ==
    [fatal |-> ~m[catalogId].present,
     map |-> [m EXCEPT ![catalogId].nss = fromName]]

\* One registered change run at rollback, on st = [map, physical, drops,
\* fatal]; dropFails: KVEngine::dropIdent returns an error (ignored).
RollbackChange(ch, st, dropFails) ==
    CASE ch.kind = "AddIdent" ->
            [st EXCEPT !.map = AddIdentChangeRollback(st.map, ch.id)]
      [] ch.kind = "Reinsert" ->
            [st EXCEPT !.map = removeEntryRollback(st.map, ch.id, ch.entry)]
      [] ch.kind = "RenameBack" ->
            LET r == putRenamedEntryRollback(st.map, ch.id, ch.entry.nss) IN
            IF r.fatal THEN [st EXCEPT !.fatal = TRUE]
            ELSE [st EXCEPT !.map = r.map]
      [] ch.kind = "DropIdent" ->
            [st EXCEPT !.drops = Append(@, ch.ident),
                       !.physical = IF dropFails THEN @ ELSE @ \ {ch.ident}]
      [] ch.kind = "DropImport" ->
            [st EXCEPT !.drops = @ \o << ch.ident >> \o ch.idents,
                       !.physical = @ \ ({ch.ident} \cup
                                          {ch.idents[i] : i \in 1..Len(ch.idents)})]
      [] OTHER -> st

\* RecoveryUnit abort: the registered changes run last-registered first; a
\* failed invariant terminates the process where it stands.
RECURSIVE RunRollback(_, _, _, _)
RunRollback(chs, k, st, dropFails) ==
    IF k = 0 \/ st.fatal THEN st
    ELSE RunRollback(chs, k - 1, RollbackChange(chs[k], st, dropFails), dropFails)

\* AddIdentChange::commit: the empty body
AddIdentChangeCommit(m, catalogId) == m

\* One registered change run at commit, on st = [map, physical]: only
\* AddIdentChange has a commit; closures given to onRollback do not run.
CommitChange(ch, st) ==
    CASE ch.kind = "AddIdent" ->
            [st EXCEPT !.map = AddIdentChangeCommit(st.map, ch.id)]
      [] OTHER -> st

\* RecoveryUnit commit: the registered changes run in registration order.
RECURSIVE RunCommit(_, _, _)
RunCommit(chs, k, st) ==
    IF k > Len(chs) THEN st
    ELSE RunCommit(chs, k + 1, CommitChange(chs[k], st))

\* ------------------------------------------------------------------- state
\* What _rs holds when the catalog is constructed over it: nothing, or a
\* committed collection beside the feature document of an older version.
InitialStores ==
    { EmptyStore,
      [EmptyStore EXCEPT ![1] = EntryRow("db.a", "i1", TwoIndexes), ![2] = FeatureDoc] }

FirstFreeId(rows) == 1 + Cardinality({id \in RecordIds : rows[id].kind # "none"})

\* The catalogs a run that looks at one call starts from: those above, and
\* the populated one with its collection's idxIdent empty, or absent.
SingleCallStores ==
    InitialStores \cup
    { [EmptyStore EXCEPT ![1] = EntryRow("db.a", "i1", idx), ![2] = FeatureDoc] :
          idx \in {IdxObj(<< >>), NoIdxField} }

StartFrom(stores, maxCalls) ==
    /\ limit = maxCalls
    /\ store \in stores
    /\ nextId = FirstFreeId(store)
    /\ map = EmptyMap
    /\ mutex = NoThread
    /\ inited = FALSE
    /\ fatal = "none"
    /\ physical = {}
    /\ active = [t \in Threads |-> FALSE]
    /\ snap = [t \in Threads |-> EmptyStore]
    /\ writes = [t \in Threads |-> NoWrites]
    /\ changes = [t \in Threads |-> << >>]
    /\ pc = [t \in Threads |-> "idle"]
    /\ call = [t \in Threads |-> NoCall]
    /\ ret = [t \in Threads |-> NoRet]
    /\ rsResult = [t \in Threads |-> "none"]
    /\ drops = [t \in Threads |-> << >>]
    /\ mapAtBegin = [t \in Threads |-> EmptyMap]
    /\ disturbed = [t \in Threads |-> FALSE]
    /\ doomed = [t \in Threads |-> FALSE]
    /\ mismatch = FALSE
    /\ overlap = FALSE
    /\ calls = 0
    /\ txns = 0
    /\ availableBytes = ThresholdBytes + 1
    /\ spillMade = FALSE
    /\ spillFull = FALSE
    /\ spillRecords = NoSpillRecords
    /\ spillNextRid = 1
    /\ spillRet = NoSpillRet
    /\ spillOps = 0
    /\ madeAt = 0
    /\ ranBelow = FALSE
    /\ ranAt = FALSE

Start(maxCalls) == StartFrom(InitialStores, maxCalls)

Init == Start(MaxCalls)

Idle(t) == fatal = "none" /\ inited /\ pc[t] = "idle"
\* A mutator runs inside the caller's transaction.  An exception thrown out
\* of a call (doomed) unwinds the caller's unit of work, which can then only
\* roll back; after a failure returned as a status the caller goes on.
CanCall(t) == Idle(t) /\ active[t] /\ ~doomed[t] /\ calls < limit
CanRead(t) == Idle(t) /\ ~doomed[t] /\ calls < limit
InCall(t, op, at) == fatal = "none" /\ pc[t] = at /\ call[t].op = op

\* The call returns r to its caller.
Done(t, r) ==
    /\ pc' = [pc EXCEPT ![t] = "idle"]
    /\ call' = [call EXCEPT ![t] = NoCall]
    /\ ret' = [ret EXCEPT ![t] = r]

\* The call starts the _rs operation `at`.
Enter(t, at, c) ==
    /\ pc' = [pc EXCEPT ![t] = at]
    /\ call' = [call EXCEPT ![t] = c]
    /\ rsResult' = [rsResult EXCEPT ![t] = "none"]
    /\ calls' = calls + 1

\* dbLockedIX is what the caller of importCatalogEntry holds; the other
\* methods do not look at it.
CallOf(op, id) == [op |-> op, id |-> id, dbLockedIX |-> FALSE]

\* Thread t replaced the map by m: every other open transaction saw it change.
Disturb(t, m) ==
    [u \in Threads |-> disturbed[u] \/ (u # t /\ active[u] /\ m # map)]

\* The documents a caller passes to putRenamedEntry for catalogId and toNss:
\* the record it reads with ns rewritten, or that record as it stands.
RenamedEntries(t, catalogId, toNss) ==
    LET cur == Visible(t)[catalogId]
        doc == IF cur.kind = "entry" THEN cur ELSE EntryRow("db.a", "i1", NoIdxField)
    IN {[doc EXCEPT !.ns = nsString(toNss)], doc}

\* The documents a caller passes to putUpdatedEntry for catalogId: the record
\* it reads with idxIdent rewritten, or with another ns.
UpdatedEntries(t, catalogId) ==
    LET cur == Visible(t)[catalogId]
        doc == IF cur.kind = "entry" THEN cur ELSE EntryRow("db.a", "i1", NoIdxField)
    IN {[doc EXCEPT !.idx = IdxObj(<< >>)], [doc EXCEPT !.ns = "db.b"]}

\* The document does not describe the entry cached (or to be cached) under
\* the ident and namespace given.
Disagrees(row, ident, nss) == row.ident # ident \/ parseFromString(row.ns) # nss

\* What insertRecord may answer.
InsertResults == {"OK"} \cup StoreErrors

\* What updateRecord may answer: a write conflict is thrown or returned, a
\* record that is not there and a full disk are returned.
UpdateResults(t, id) ==
    IF WriteConflict(t, id) THEN {"WriteConflictException", "WriteConflict"}
    ELSE IF Visible(t)[id].kind = "none" THEN {"NoSuchKey"}
    ELSE {"OK", "OutOfDiskSpace"}

\* ------------------------------------------------------------ transactions
InitCatalog ==
    /\ fatal = "none" /\ ~inited
    /\ inited' = TRUE
    /\ map' = init(store, map)
    /\ UNCHANGED << store, nextId, mutex, fatal, physical, active, snap,
                 writes, changes, pc, call, ret, rsResult, drops,
                 mapAtBegin, disturbed, doomed, mismatch, overlap,
                 calls, txns, limit, availableBytes, spillMade,
                 spillFull, spillRecords, spillNextRid, spillRet,
                 spillOps, madeAt, ranBelow, ranAt >>

BeginTxn(t) ==
    /\ Idle(t) /\ ~active[t] /\ txns < MaxTxns
    /\ active' = [active EXCEPT ![t] = TRUE]
    /\ snap' = [snap EXCEPT ![t] = store]
    /\ writes' = [writes EXCEPT ![t] = NoWrites]
    /\ changes' = [changes EXCEPT ![t] = << >>]
    /\ drops' = [drops EXCEPT ![t] = << >>]
    /\ ret' = [ret EXCEPT ![t] = NoRet]
    /\ rsResult' = [rsResult EXCEPT ![t] = "none"]
    /\ mapAtBegin' = [mapAtBegin EXCEPT ![t] = map]
    /\ disturbed' = [disturbed EXCEPT ![t] = FALSE]
    /\ overlap' = (overlap \/ \E u \in Threads \ {t} : active[u])
    /\ txns' = txns + 1
    /\ UNCHANGED << store, nextId, map, mutex, inited, fatal, physical, pc,
                 call, doomed, mismatch, calls, limit,
                 availableBytes, spillMade, spillFull, spillRecords,
                 spillNextRid, spillRet, spillOps, madeAt, ranBelow,
                 ranAt >>

\* RecoveryUnit commit: the writes become the committed records; every
\* registered change's commit() is empty and no onRollback closure runs.
CommitTxn(t) ==
    /\ Idle(t) /\ active[t] /\ ~doomed[t]
    /\ store' = ApplyWrites(store, writes[t])
    /\ LET st == RunCommit(changes[t], 1, [map |-> map, physical |-> physical])
       IN map' = st.map /\ physical' = st.physical
    /\ active' = [active EXCEPT ![t] = FALSE]
    /\ snap' = [snap EXCEPT ![t] = EmptyStore]
    /\ writes' = [writes EXCEPT ![t] = NoWrites]
    /\ changes' = [changes EXCEPT ![t] = << >>]
    /\ ret' = [ret EXCEPT ![t] = RetEnd("commit", changes[t])]
    /\ mapAtBegin' = [mapAtBegin EXCEPT ![t] = EmptyMap]
    /\ disturbed' = [disturbed EXCEPT ![t] = FALSE]
    /\ UNCHANGED << nextId, mutex, inited, fatal, pc, call, rsResult, drops,
                 doomed, mismatch, overlap, calls, txns, limit,
                 availableBytes, spillMade, spillFull, spillRecords,
                 spillNextRid, spillRet, spillOps, madeAt, ranBelow,
                 ranAt >>

NeedsMapLock(chs) ==
    \E i \in 1..Len(chs) : chs[i].kind \in {"AddIdent", "Reinsert", "RenameBack"}

\* RecoveryUnit abort: the writes are discarded and the registered changes
\* roll back, last registered first.
AbortTxn(t) ==
    /\ Idle(t) /\ active[t]
    /\ NeedsMapLock(changes[t]) => mutex = NoThread
    /\ \E dropFails \in IF \E i \in 1..Len(changes[t]) : changes[t][i].kind = "DropIdent"
                        THEN BOOLEAN ELSE {FALSE} :
         LET st == RunRollback(changes[t], Len(changes[t]),
                               [map |-> map, physical |-> physical,
                                drops |-> << >>, fatal |-> FALSE],
                               dropFails)
         IN /\ map' = st.map
            /\ physical' = st.physical
            /\ drops' = [drops EXCEPT ![t] = st.drops]
            /\ disturbed' = Disturb(t, st.map)
            /\ IF st.fatal
               THEN /\ fatal' = "invariantRenameRollback"
                    /\ UNCHANGED << active, snap, writes, changes, ret, doomed >>
               ELSE /\ active' = [active EXCEPT ![t] = FALSE]
                    /\ snap' = [snap EXCEPT ![t] = EmptyStore]
                    /\ writes' = [writes EXCEPT ![t] = NoWrites]
                    /\ changes' = [changes EXCEPT ![t] = << >>]
                    /\ doomed' = [doomed EXCEPT ![t] = FALSE]
                    /\ ret' = [ret EXCEPT ![t] = RetEnd("abort", changes[t])]
                    /\ UNCHANGED fatal
    /\ UNCHANGED << store, nextId, mutex, inited, pc, call, rsResult,
                 mapAtBegin, mismatch, overlap, calls, txns, limit,
                 availableBytes, spillMade, spillFull, spillRecords,
                 spillNextRid, spillRet, spillOps, madeAt, ranBelow,
                 ranAt >>

\* ---------------------------------------------------------------- mutators
\* addOrphanedEntry -> _addEntry, up to the start of insertRecord.
AddOrphanedEntryCall(t) ==
    /\ CanCall(t)
    /\ Enter(t, "insertRecord", CallOf("addOrphanedEntry", 0))
    /\ UNCHANGED << store, nextId, map, mutex, inited, fatal, physical,
                 active, snap, writes, changes, ret, drops,
                 mapAtBegin, disturbed, doomed, mismatch, overlap,
                 txns, limit, availableBytes, spillMade, spillFull,
                 spillRecords, spillNextRid, spillRet, spillOps,
                 madeAt, ranBelow, ranAt >>

\* insertRecord answers and _addEntry finishes.
AddOrphanedEntryReturn(t, ident, nss, row) ==
    /\ InCall(t, "addOrphanedEntry", "insertRecord")
    /\ \E res \in InsertResults :
         /\ rsResult' = [rsResult EXCEPT ![t] = res]
         /\ IF addEntryInsertFailed(res)
            THEN /\ Done(t, Ret("addOrphanedEntry", res, 0, << >>))
                 /\ UNCHANGED doomed
                 /\ UNCHANGED << nextId, map, writes, changes, fatal, disturbed, mismatch >>
            ELSE /\ mutex = NoThread /\ nextId <= MaxId
                 /\ UNCHANGED doomed
                 /\ LET r == addEntry(map, changes[t], nextId, ident, nss)
                    IN /\ nextId' = nextId + 1
                       /\ writes' = [writes EXCEPT ![t][nextId] = row]
                       /\ mismatch' = (mismatch \/ Disagrees(row, ident, nss))
                       /\ IF r.fatal
                          THEN /\ fatal' = "invariantDuplicateId"
                               /\ UNCHANGED << map, changes, pc, call, ret, disturbed >>
                          ELSE /\ map' = r.map
                               /\ changes' = [changes EXCEPT ![t] = r.changes]
                               /\ disturbed' = Disturb(t, r.map)
                               /\ Done(t, RetOf("addOrphanedEntry", "OK", nextId,
                                                << r.map[nextId] >>, ident, nss))
                               /\ UNCHANGED fatal
    /\ UNCHANGED << store, mutex, inited, physical, active, snap, drops,
                 mapAtBegin, overlap, calls, txns, limit,
                 availableBytes, spillMade, spillFull, spillRecords,
                 spillNextRid, spillRet, spillOps, madeAt, ranBelow,
                 ranAt >>

\* initializeNewEntry -> _addEntry, up to the start of insertRecord.
InitializeNewEntryCall(t) ==
    /\ CanCall(t)
    /\ Enter(t, "insertRecord", CallOf("initializeNewEntry", 0))
    /\ UNCHANGED << store, nextId, map, mutex, inited, fatal, physical,
                 active, snap, writes, changes, ret, drops,
                 mapAtBegin, disturbed, doomed, mismatch, overlap,
                 txns, limit, availableBytes, spillMade, spillFull,
                 spillRecords, spillNextRid, spillRet, spillOps,
                 madeAt, ranBelow, ranAt >>

\* insertRecord answers, _addEntry finishes, then createRecordStore
\* (created: it returned OK), the onRollback registration and getRecordStore.
InitializeNewEntryReturn(t, ident, nss, row) ==
    /\ InCall(t, "initializeNewEntry", "insertRecord")
    /\ \E res \in InsertResults, created \in BOOLEAN :
         /\ rsResult' = [rsResult EXCEPT ![t] = res]
         /\ IF addEntryInsertFailed(res)
            THEN /\ created
                 /\ Done(t, Ret("initializeNewEntry", res, 0, << >>))
                 /\ UNCHANGED doomed
                 /\ UNCHANGED << nextId, map, writes, changes, fatal, disturbed,
                                 physical, mismatch >>
            ELSE /\ mutex = NoThread /\ nextId <= MaxId
                 /\ LET r == addEntry(map, changes[t], nextId, ident, nss)
                        entry == r.map[nextId]
                    IN /\ nextId' = nextId + 1
                       /\ writes' = [writes EXCEPT ![t][nextId] = row]
                       /\ mismatch' = (mismatch \/ Disagrees(row, ident, nss))
                       /\ IF r.fatal
                          THEN /\ fatal' = "invariantDuplicateId"
                               /\ UNCHANGED << map, changes, pc, call, ret, disturbed,
                                               physical, doomed >>
                          ELSE /\ map' = r.map
                               /\ disturbed' = Disturb(t, r.map)
                               /\ UNCHANGED doomed
                               /\ UNCHANGED fatal
                               /\ IF ~created
                                  THEN /\ changes' = [changes EXCEPT ![t] = r.changes]
                                       /\ Done(t, RetOf("initializeNewEntry", "CreateFailed",
                                                        nextId, << >>, ident, nss))
                                       /\ UNCHANGED physical
                                  ELSE /\ physical' = physical \cup {ident}
                                       /\ changes' = [changes EXCEPT ![t] =
                                              initializeNewEntryOnRollback(r.changes, entry)]
                                       /\ Done(t, RetOf("initializeNewEntry", "OK", nextId,
                                                        << entry >>, ident, nss))
    /\ UNCHANGED << store, mutex, inited, active, snap, drops, mapAtBegin,
                 overlap, calls, txns, limit, availableBytes,
                 spillMade, spillFull, spillRecords, spillNextRid,
                 spillRet, spillOps, madeAt, ranBelow, ranAt >>

\* importCatalogEntry -> _importEntry: the invariant on the database lock,
\* then up to the start of insertRecord.
ImportCatalogEntryCall(t, dbLockedIX) ==
    /\ CanCall(t)
    /\ LET c == [CallOf("importCatalogEntry", 0) EXCEPT !.dbLockedIX = dbLockedIX]
           f == importEntryInvariant(dbLockedIX)
       IN IF f # "none"
          THEN /\ fatal' = f
               /\ calls' = calls + 1
               /\ call' = [call EXCEPT ![t] = c]
               /\ UNCHANGED << pc, rsResult >>
          ELSE /\ Enter(t, "insertRecord", c)
               /\ UNCHANGED fatal
    /\ UNCHANGED << store, nextId, map, mutex, inited, physical, active,
                 snap, writes, changes, ret, drops, mapAtBegin,
                 disturbed, doomed, mismatch, overlap, txns, limit,
                 availableBytes, spillMade, spillFull, spillRecords,
                 spillNextRid, spillRet, spillOps, madeAt, ranBelow,
                 ranAt >>

\* The idents importCatalogEntry has imported when importRecordStore (k = -1)
\* or the (k+1)-th importSortedDataInterface fails, or none does.
Imported(ident, indexIdents, k) ==
    IF k < 0 THEN {} ELSE {ident} \cup {indexIdents[i] : i \in 1..k}

\* insertRecord answers, _importEntry finishes, then the onRollback
\* registration, importRecordStore and the importSortedDataInterface loop.
ImportCatalogEntryReturn(t, nss, row) ==
    /\ InCall(t, "importCatalogEntry", "insertRecord")
    /\ \E res \in InsertResults :
         /\ rsResult' = [rsResult EXCEPT ![t] = res]
         /\ IF importEntryInsertFailed(res)
            THEN /\ Done(t, Ret("importCatalogEntry", res, 0, << >>))
                 /\ UNCHANGED doomed
                 /\ UNCHANGED << nextId, map, writes, changes, fatal, disturbed,
                                 physical, mismatch >>
            ELSE /\ mutex = NoThread /\ nextId <= MaxId
                 /\ LET r == importEntry(map, changes[t], nextId, nss, row)
                        entry == r.map[nextId]
                        indexIdents == getIndexIdentsOf(row)
                    IN /\ nextId' = nextId + 1
                       /\ writes' = [writes EXCEPT ![t][nextId] = row]
                       /\ mismatch' = (mismatch \/ Disagrees(row, row.ident, nss))
                       /\ IF r.fatal
                          THEN /\ fatal' = "invariantDuplicateId"
                               /\ UNCHANGED << map, changes, pc, call, ret, disturbed,
                                               physical, doomed >>
                          ELSE /\ map' = r.map
                               /\ disturbed' = Disturb(t, r.map)
                               /\ changes' = [changes EXCEPT ![t] =
                                      importCatalogEntryOnRollback(r.changes, entry, indexIdents)]
                               /\ UNCHANGED fatal
                               /\ \E k \in -1..Len(indexIdents) :
                                    /\ physical' = physical \cup
                                                   Imported(entry.ident, indexIdents, k)
                                    /\ UNCHANGED doomed
                                    /\ Done(t, IF k < Len(indexIdents)
                                               THEN RetOf("importCatalogEntry", "ImportFailed",
                                                          nextId, << >>, row.ident, nss)
                                               ELSE RetOf("importCatalogEntry", "OK", nextId,
                                                          << entry >>, row.ident, nss))
    /\ UNCHANGED << store, mutex, inited, active, snap, drops, mapAtBegin,
                 overlap, calls, txns, limit, availableBytes,
                 spillMade, spillFull, spillRecords, spillNextRid,
                 spillRet, spillOps, madeAt, ranBelow, ranAt >>

\* removeEntry: the lock, the lookup, the onRollback registration, then up
\* to the start of deleteRecord, the lock still held.
RemoveEntryCall(t, catalogId) ==
    /\ CanCall(t)
    /\ mutex = NoThread
    /\ IF ~removeEntryFind(map, catalogId)
       THEN /\ Done(t, Ret("removeEntry", "NamespaceNotFound", catalogId, << >>))
            /\ UNCHANGED doomed
            /\ calls' = calls + 1
            /\ rsResult' = [rsResult EXCEPT ![t] = "none"]
            /\ UNCHANGED << mutex, changes >>
       ELSE /\ changes' = [changes EXCEPT ![t] =
                              removeEntryOnRollback(changes[t], map, catalogId)]
            /\ mutex' = removeEntryLock(t)
            /\ Enter(t, "deleteRecord", CallOf("removeEntry", catalogId))
            /\ UNCHANGED << ret, doomed >>
    /\ UNCHANGED << store, nextId, map, inited, fatal, physical, active,
                 snap, writes, drops, mapAtBegin, disturbed,
                 mismatch, overlap, txns, limit, availableBytes,
                 spillMade, spillFull, spillRecords, spillNextRid,
                 spillRet, spillOps, madeAt, ranBelow, ranAt >>

\* deleteRecord returns or throws WriteConflictException; then the erase; the
\* lock_guard releases the lock either way.
RemoveEntryReturn(t) ==
    /\ InCall(t, "removeEntry", "deleteRecord")
    /\ mutex' = removeEntryUnlock(t, WriteConflict(t, call[t].id))
    /\ IF WriteConflict(t, call[t].id)
       THEN /\ rsResult' = [rsResult EXCEPT ![t] = "WriteConflictException"]
            /\ doomed' = [doomed EXCEPT ![t] = TRUE]
            /\ Done(t, Ret("removeEntry", "WriteConflictException", call[t].id, << >>))
            /\ map' = removeEntryThrown(map, call[t].id)
            /\ UNCHANGED << writes, disturbed >>
       ELSE /\ rsResult' = [rsResult EXCEPT ![t] = "OK"]
            /\ writes' = [writes EXCEPT ![t][call[t].id] = Deleted]
            /\ map' = removeEntryErase(map, call[t].id)
            /\ disturbed' = Disturb(t, removeEntryErase(map, call[t].id))
            /\ Done(t, Ret("removeEntry", "OK", call[t].id, << >>))
            /\ UNCHANGED doomed
    /\ UNCHANGED << store, nextId, inited, fatal, physical, active, snap,
                 changes, drops, mapAtBegin, mismatch, overlap,
                 calls, txns, limit, availableBytes, spillMade,
                 spillFull, spillRecords, spillNextRid, spillRet,
                 spillOps, madeAt, ranBelow, ranAt >>

\* putRenamedEntry, up to the start of updateRecord.
PutRenamedEntryCall(t) ==
    /\ CanCall(t)
    /\ Enter(t, "updateRecord", CallOf("putRenamedEntry", 0))
    /\ UNCHANGED << store, nextId, map, mutex, inited, fatal, physical,
                 active, snap, writes, changes, ret, drops,
                 mapAtBegin, disturbed, doomed, mismatch, overlap,
                 txns, limit, availableBytes, spillMade, spillFull,
                 spillRecords, spillNextRid, spillRet, spillOps,
                 madeAt, ranBelow, ranAt >>

\* updateRecord answers; fassert(28522) on its status; then the locked part.
PutRenamedEntryReturn(t, catalogId, toNss, renamedEntry) ==
    /\ InCall(t, "putRenamedEntry", "updateRecord")
    /\ \E res \in UpdateResults(t, catalogId) :
         /\ rsResult' = [rsResult EXCEPT ![t] = res]
         /\ IF res = "WriteConflictException"
            THEN /\ doomed' = [doomed EXCEPT ![t] = TRUE]
                 /\ Done(t, Ret("putRenamedEntry", res, catalogId, << >>))
                 /\ UNCHANGED << map, writes, changes, fatal, disturbed, mismatch >>
            ELSE IF putRenamedEntryFassert(res) # "none"
            THEN /\ fatal' = putRenamedEntryFassert(res)
                 /\ call' = [call EXCEPT ![t] = CallOf("putRenamedEntry", catalogId)]
                 /\ UNCHANGED << map, writes, changes, pc, ret, disturbed,
                                 doomed, mismatch >>
            ELSE /\ mutex = NoThread
                 /\ writes' = IF res = "OK"
                              THEN [writes EXCEPT ![t][catalogId] = renamedEntry]
                              ELSE writes
                 /\ LET r == putRenamedEntryLocked(map, changes[t], catalogId, toNss)
                    IN IF r.fatal
                       THEN /\ fatal' = "invariant"
                            /\ call' = [call EXCEPT ![t] =
                                           CallOf("putRenamedEntry", catalogId)]
                            /\ UNCHANGED << map, changes, pc, ret, disturbed,
                                            doomed, mismatch >>
                       ELSE /\ map' = r.map
                            /\ changes' = [changes EXCEPT ![t] = r.changes]
                            /\ disturbed' = Disturb(t, r.map)
                            /\ mismatch' = (mismatch \/
                                   Disagrees(renamedEntry, map[catalogId].ident, toNss))
                            /\ Done(t, RetOf("putRenamedEntry", "OK", catalogId, << >>,
                                             map[catalogId].ident, toNss))
                            /\ UNCHANGED << fatal, doomed >>
    /\ UNCHANGED << store, nextId, mutex, inited, physical, active, snap,
                 drops, mapAtBegin, overlap, calls, txns, limit,
                 availableBytes, spillMade, spillFull, spillRecords,
                 spillNextRid, spillRet, spillOps, madeAt, ranBelow,
                 ranAt >>

\* putUpdatedEntry, up to the start of updateRecord.
PutUpdatedEntryCall(t) ==
    /\ CanCall(t)
    /\ Enter(t, "updateRecord", CallOf("putUpdatedEntry", 0))
    /\ UNCHANGED << store, nextId, map, mutex, inited, fatal, physical,
                 active, snap, writes, changes, ret, drops,
                 mapAtBegin, disturbed, doomed, mismatch, overlap,
                 txns, limit, availableBytes, spillMade, spillFull,
                 spillRecords, spillNextRid, spillRet, spillOps,
                 madeAt, ranBelow, ranAt >>

\* updateRecord answers; fassert(28521) on its status.
PutUpdatedEntryReturn(t, catalogId, catalogEntryObj) ==
    /\ InCall(t, "putUpdatedEntry", "updateRecord")
    /\ \E res \in UpdateResults(t, catalogId) :
         /\ rsResult' = [rsResult EXCEPT ![t] = res]
         /\ IF res = "WriteConflictException"
            THEN /\ doomed' = [doomed EXCEPT ![t] = TRUE]
                 /\ Done(t, Ret("putUpdatedEntry", res, catalogId, << >>))
                 /\ UNCHANGED << map, writes, fatal, mismatch >>
            ELSE IF putUpdatedEntryFassert(res) # "none"
            THEN /\ fatal' = putUpdatedEntryFassert(res)
                 /\ call' = [call EXCEPT ![t] = CallOf("putUpdatedEntry", catalogId)]
                 /\ UNCHANGED << map, writes, pc, ret, doomed, mismatch >>
            ELSE /\ writes' = IF res = "OK"
                              THEN [writes EXCEPT ![t][catalogId] = catalogEntryObj]
                              ELSE writes
                 /\ map' = putUpdatedEntryMap(map, catalogId, catalogEntryObj)
                 /\ mismatch' = (mismatch \/ ~map[catalogId].present \/
                        Disagrees(catalogEntryObj, map[catalogId].ident, map[catalogId].nss))
                 /\ Done(t, Ret("putUpdatedEntry", "OK", catalogId, << >>))
                 /\ UNCHANGED << fatal, doomed >>
    /\ UNCHANGED << store, nextId, mutex, inited, physical, active, snap,
                 changes, drops, mapAtBegin, disturbed, overlap,
                 calls, txns, limit, availableBytes, spillMade,
                 spillFull, spillRecords, spillNextRid, spillRet,
                 spillOps, madeAt, ranBelow, ranAt >>

\* ----------------------------------------------------------------- readers
\* getEntry: the lookup under the lock and the invariant.
GetEntry(t, catalogId) ==
    /\ CanRead(t)
    /\ mutex = NoThread
    /\ calls' = calls + 1
    /\ rsResult' = [rsResult EXCEPT ![t] = "none"]
    /\ LET r == getEntry(map, catalogId)
       IN IF r.fatal
          THEN /\ fatal' = "invariantGetEntry"
               /\ call' = [call EXCEPT ![t] = CallOf("getEntry", catalogId)]
               /\ UNCHANGED << pc, ret >>
          ELSE /\ Done(t, Ret("getEntry", "OK", catalogId, << r.entry >>))
               /\ UNCHANGED fatal
    /\ UNCHANGED << store, nextId, map, mutex, inited, physical, active,
                 snap, writes, changes, drops, mapAtBegin, disturbed,
                 doomed, mismatch, overlap, txns, limit,
                 availableBytes, spillMade, spillFull, spillRecords,
                 spillNextRid, spillRet, spillOps, madeAt, ranBelow,
                 ranAt >>

\* getAllCatalogEntries, up to the cursor's scan.
GetAllCatalogEntriesCall(t) ==
    /\ CanRead(t)
    /\ Enter(t, "cursor", CallOf("getAllCatalogEntries", 0))
    /\ UNCHANGED << store, nextId, map, mutex, inited, fatal, physical,
                 active, snap, writes, changes, ret, drops,
                 mapAtBegin, disturbed, doomed, mismatch, overlap,
                 txns, limit, availableBytes, spillMade, spillFull,
                 spillRecords, spillNextRid, spillRet, spillOps,
                 madeAt, ranBelow, ranAt >>

\* The cursor is read to its end and the entries are returned.
GetAllCatalogEntriesReturn(t) ==
    /\ InCall(t, "getAllCatalogEntries", "cursor")
    /\ rsResult' = [rsResult EXCEPT ![t] = "OK"]
    /\ Done(t, Ret("getAllCatalogEntries", "OK", 0, getAllCatalogEntries(View(t))))
    /\ UNCHANGED << store, nextId, map, mutex, inited, fatal, physical,
                 active, snap, writes, changes, drops, mapAtBegin,
                 disturbed, doomed, mismatch, overlap, calls, txns,
                 limit, availableBytes, spillMade, spillFull,
                 spillRecords, spillNextRid, spillRet, spillOps,
                 madeAt, ranBelow, ranAt >>

\* getNSSFromCatalog: the lookup under the lock; on a miss the lock is
\* released and the method goes on to the cursor.
GetNSSFromCatalogCall(t, catalogId) ==
    /\ CanRead(t)
    /\ mutex = NoThread
    /\ LET c == getNSSFromCatalogCached(map, catalogId)
       IN IF c.found
          THEN /\ Done(t, RetOf("getNSSFromCatalog", "OK", catalogId, << >>, "",
                                c.nss))
               /\ calls' = calls + 1
               /\ rsResult' = [rsResult EXCEPT ![t] = "none"]
               /\ UNCHANGED doomed
          ELSE /\ Enter(t, "cursor", CallOf("getNSSFromCatalog", catalogId))
               /\ UNCHANGED << ret, doomed >>
    /\ UNCHANGED << store, nextId, map, mutex, inited, fatal, physical,
                 active, snap, writes, changes, drops, mapAtBegin,
                 disturbed, mismatch, overlap, txns, limit,
                 availableBytes, spillMade, spillFull, spillRecords,
                 spillNextRid, spillRet, spillOps, madeAt, ranBelow,
                 ranAt >>

\* The point read at the caller's snapshot: the ns of the record found, or
\* tassert(9117800), which throws.
GetNSSFromCatalogReturn(t) ==
    /\ InCall(t, "getNSSFromCatalog", "cursor")
    /\ rsResult' = [rsResult EXCEPT ![t] = "OK"]
    /\ map' = getNSSFromCatalogMap(map, call[t].id, findRawEntry(View(t), call[t].id))
    /\ LET r == getNSSFromCatalogRead(findRawEntry(View(t), call[t].id))
       IN IF r.status = "OK"
          THEN /\ Done(t, RetOf("getNSSFromCatalog", "OK", call[t].id, << >>, "",
                                r.nss))
               /\ UNCHANGED doomed
          ELSE /\ Done(t, Ret("getNSSFromCatalog", r.status, call[t].id, << >>))
               /\ doomed' = [doomed EXCEPT ![t] = active[t]]
    /\ UNCHANGED << store, nextId, mutex, inited, fatal, physical, active,
                 snap, writes, changes, drops, mapAtBegin, disturbed,
                 mismatch, overlap, calls, txns, limit,
                 availableBytes, spillMade, spillFull, spillRecords,
                 spillNextRid, spillRet, spillOps, madeAt, ranBelow,
                 ranAt >>

\* getAllIdents, up to the cursor's scan.
GetAllIdentsCall(t) ==
    /\ CanRead(t)
    /\ Enter(t, "cursor", CallOf("getAllIdents", 0))
    /\ UNCHANGED << store, nextId, map, mutex, inited, fatal, physical,
                 active, snap, writes, changes, ret, drops,
                 mapAtBegin, disturbed, doomed, mismatch, overlap,
                 txns, limit, availableBytes, spillMade, spillFull,
                 spillRecords, spillNextRid, spillRet, spillOps,
                 madeAt, ranBelow, ranAt >>

\* The cursor is read to its end and the idents are returned.
GetAllIdentsReturn(t) ==
    /\ InCall(t, "getAllIdents", "cursor")
    /\ rsResult' = [rsResult EXCEPT ![t] = "OK"]
    /\ Done(t, RetIdents("getAllIdents", 0, getAllIdents(View(t))))
    /\ UNCHANGED << store, nextId, map, mutex, inited, fatal, physical,
                 active, snap, writes, changes, drops, mapAtBegin,
                 disturbed, doomed, mismatch, overlap, calls, txns,
                 limit, availableBytes, spillMade, spillFull,
                 spillRecords, spillNextRid, spillRet, spillOps,
                 madeAt, ranBelow, ranAt >>

\* getIndexIdents, up to the cursor's seekExact.
GetIndexIdentsCall(t, catalogId) ==
    /\ CanRead(t)
    /\ Enter(t, "cursor", CallOf("getIndexIdents", catalogId))
    /\ UNCHANGED << store, nextId, map, mutex, inited, fatal, physical,
                 active, snap, writes, changes, ret, drops,
                 mapAtBegin, disturbed, doomed, mismatch, overlap,
                 txns, limit, availableBytes, spillMade, spillFull,
                 spillRecords, spillNextRid, spillRet, spillOps,
                 madeAt, ranBelow, ranAt >>

\* The point read at the caller's snapshot, then _getIndexIdents.
GetIndexIdentsReturn(t) ==
    /\ InCall(t, "getIndexIdents", "cursor")
    /\ rsResult' = [rsResult EXCEPT ![t] = "OK"]
    /\ Done(t, RetIdents("getIndexIdents", call[t].id,
                         getIndexIdents(View(t), call[t].id)))
    /\ UNCHANGED << store, nextId, map, mutex, inited, fatal, physical,
                 active, snap, writes, changes, drops, mapAtBegin,
                 disturbed, doomed, mismatch, overlap, calls, txns,
                 limit, availableBytes, spillMade, spillFull,
                 spillRecords, spillNextRid, spillRet, spillOps,
                 madeAt, ranBelow, ranAt >>

\* getIndexIdent, up to the cursor's seekExact.
GetIndexIdentCall(t, catalogId) ==
    /\ CanRead(t)
    /\ Enter(t, "cursor", CallOf("getIndexIdent", catalogId))
    /\ UNCHANGED << store, nextId, map, mutex, inited, fatal, physical,
                 active, snap, writes, changes, ret, drops,
                 mapAtBegin, disturbed, doomed, mismatch, overlap,
                 txns, limit, availableBytes, spillMade, spillFull,
                 spillRecords, spillNextRid, spillRet, spillOps,
                 madeAt, ranBelow, ranAt >>

\* The point read at the caller's snapshot, then the lookup of idxName under
\* idxIdent; an exception of the BSON accessors leaves the method.
GetIndexIdentReturn(t, idxName) ==
    /\ InCall(t, "getIndexIdent", "cursor")
    /\ rsResult' = [rsResult EXCEPT ![t] = "OK"]
    /\ LET r == getIndexIdent(View(t), call[t].id, idxName)
       IN /\ Done(t, RetIdent("getIndexIdent", r.status, call[t].id, idxName,
                              r.identForIndex))
          /\ doomed' = [doomed EXCEPT ![t] = IF r.status = "OK" THEN doomed[t]
                                             ELSE active[t]]
    /\ UNCHANGED << store, nextId, map, mutex, inited, fatal, physical,
                 active, snap, writes, changes, drops, mapAtBegin,
                 disturbed, mismatch, overlap, calls, txns, limit,
                 availableBytes, spillMade, spillFull, spillRecords,
                 spillNextRid, spillRet, spillOps, madeAt, ranBelow,
                 ranAt >>

\* getRawCatalogEntry, up to the cursor's seekExact.
GetRawCatalogEntryCall(t, catalogId) ==
    /\ CanRead(t)
    /\ Enter(t, "cursor", CallOf("getRawCatalogEntry", catalogId))
    /\ UNCHANGED << store, nextId, map, mutex, inited, fatal, physical,
                 active, snap, writes, changes, ret, drops,
                 mapAtBegin, disturbed, doomed, mismatch, overlap,
                 txns, limit, availableBytes, spillMade, spillFull,
                 spillRecords, spillNextRid, spillRet, spillOps,
                 madeAt, ranBelow, ranAt >>

\* The point read at the caller's snapshot; the document found, or the empty
\* one, is returned.
GetRawCatalogEntryReturn(t) ==
    /\ InCall(t, "getRawCatalogEntry", "cursor")
    /\ rsResult' = [rsResult EXCEPT ![t] = "OK"]
    /\ Done(t, RetRow("getRawCatalogEntry", call[t].id,
                      getRawCatalogEntry(View(t), call[t].id)))
    /\ UNCHANGED << store, nextId, map, mutex, inited, fatal, physical,
                 active, snap, writes, changes, drops, mapAtBegin,
                 disturbed, doomed, mismatch, overlap, calls, txns,
                 limit, availableBytes, spillMade, spillFull,
                 spillRecords, spillNextRid, spillRet, spillOps,
                 madeAt, ranBelow, ranAt >>

\* ------------------------------------------------------------ specification
Next ==
    \/ InitCatalog
    \/ \E t \in Threads : BeginTxn(t)
    \/ \E t \in Threads : CommitTxn(t)
    \/ \E t \in Threads : AbortTxn(t)
    \/ \E t \in Threads : AddOrphanedEntryCall(t)
    \/ \E t \in Threads, in \in AddInputs :
          AddOrphanedEntryReturn(t, in.ident, in.nss, in.row)
    \/ \E t \in Threads : InitializeNewEntryCall(t)
    \/ \E t \in Threads, in \in AddInputs :
          InitializeNewEntryReturn(t, in.ident, in.nss, in.row)
    \/ \E t \in Threads, lk \in BOOLEAN : ImportCatalogEntryCall(t, lk)
    \/ \E t \in Threads, in \in ImportInputs :
          ImportCatalogEntryReturn(t, in.nss, in.row)
    \/ \E t \in Threads, id \in RecordIds : RemoveEntryCall(t, id)
    \/ \E t \in Threads : RemoveEntryReturn(t)
    \/ \E t \in Threads : PutRenamedEntryCall(t)
    \/ \E t \in Threads, id \in RecordIds, nss \in NamespaceStrings :
          \E row \in RenamedEntries(t, id, nss) : PutRenamedEntryReturn(t, id, nss, row)
    \/ \E t \in Threads : PutUpdatedEntryCall(t)
    \/ \E t \in Threads, id \in RecordIds :
          \E row \in UpdatedEntries(t, id) : PutUpdatedEntryReturn(t, id, row)
    \/ \E t \in Threads, id \in RecordIds : GetEntry(t, id)
    \/ \E t \in Threads : GetAllCatalogEntriesCall(t)
    \/ \E t \in Threads : GetAllCatalogEntriesReturn(t)
    \/ \E t \in Threads, id \in RecordIds : GetNSSFromCatalogCall(t, id)
    \/ \E t \in Threads : GetNSSFromCatalogReturn(t)
    \/ \E t \in Threads : GetAllIdentsCall(t)
    \/ \E t \in Threads : GetAllIdentsReturn(t)
    \/ \E t \in Threads, id \in RecordIds : GetIndexIdentsCall(t, id)
    \/ \E t \in Threads : GetIndexIdentsReturn(t)
    \/ \E t \in Threads, id \in RecordIds : GetRawCatalogEntryCall(t, id)
    \/ \E t \in Threads : GetRawCatalogEntryReturn(t)
    \/ \E t \in Threads, id \in RecordIds : GetIndexIdentCall(t, id)
    \/ \E t \in Threads, idxName \in IndexNames : GetIndexIdentReturn(t, idxName)

Spec == Init /\ [][Next]_vars

\* The methods that use the map or its lock, the transactions that run the
\* rollback handlers, and putUpdatedEntry, whose writes make another
\* thread's deleteRecord throw; the readers that only read the record store
\* never ask for the lock.
NextLive ==
    \/ InitCatalog
    \/ \E t \in Threads : BeginTxn(t)
    \/ \E t \in Threads : CommitTxn(t)
    \/ \E t \in Threads : AbortTxn(t)
    \/ \E t \in Threads : AddOrphanedEntryCall(t)
    \/ \E t \in Threads, in \in AddInputs :
          AddOrphanedEntryReturn(t, in.ident, in.nss, in.row)
    \/ \E t \in Threads : InitializeNewEntryCall(t)
    \/ \E t \in Threads, in \in AddInputs :
          InitializeNewEntryReturn(t, in.ident, in.nss, in.row)
    \/ \E t \in Threads, lk \in BOOLEAN : ImportCatalogEntryCall(t, lk)
    \/ \E t \in Threads, in \in ImportInputs :
          ImportCatalogEntryReturn(t, in.nss, in.row)
    \/ \E t \in Threads, id \in RecordIds : RemoveEntryCall(t, id)
    \/ \E t \in Threads : RemoveEntryReturn(t)
    \/ \E t \in Threads : PutRenamedEntryCall(t)
    \/ \E t \in Threads, id \in RecordIds, nss \in NamespaceStrings :
          \E row \in RenamedEntries(t, id, nss) : PutRenamedEntryReturn(t, id, nss, row)
    \/ \E t \in Threads : PutUpdatedEntryCall(t)
    \/ \E t \in Threads, id \in RecordIds :
          \E row \in UpdatedEntries(t, id) : PutUpdatedEntryReturn(t, id, row)
    \/ \E t \in Threads, id \in RecordIds : GetEntry(t, id)
    \/ \E t \in Threads : GetAllCatalogEntriesCall(t)
    \/ \E t \in Threads : GetAllCatalogEntriesReturn(t)
    \/ \E t \in Threads, id \in RecordIds : GetNSSFromCatalogCall(t, id)
    \/ \E t \in Threads : GetNSSFromCatalogReturn(t)

\* Thread t's call in progress gets its answer from the record store and
\* runs to its return.
Returns(t) ==
    \/ \E in \in AddInputs : AddOrphanedEntryReturn(t, in.ident, in.nss, in.row)
    \/ \E in \in AddInputs : InitializeNewEntryReturn(t, in.ident, in.nss, in.row)
    \/ \E in \in ImportInputs : ImportCatalogEntryReturn(t, in.nss, in.row)
    \/ RemoveEntryReturn(t)
    \/ \E id \in RecordIds, nss \in NamespaceStrings :
          \E row \in RenamedEntries(t, id, nss) : PutRenamedEntryReturn(t, id, nss, row)
    \/ \E id \in RecordIds :
          \E row \in UpdatedEntries(t, id) : PutUpdatedEntryReturn(t, id, row)
    \/ GetAllCatalogEntriesReturn(t)
    \/ GetNSSFromCatalogReturn(t)

\* These methods with every thread scheduled fairly: a call that can take
\* its next step eventually takes it.
SpecLive == Init /\ [][NextLive]_vars /\ \A t \in Threads : WF_vars(Returns(t))

\* One thread running its transactions one after the other, with more calls
\* in each.
SerialThread == "T1"
InitSerial == Start(MaxSerialCalls)
NextSerial ==
    \/ InitCatalog
    \/ BeginTxn(SerialThread)
    \/ CommitTxn(SerialThread)
    \/ AbortTxn(SerialThread)
    \/ AddOrphanedEntryCall(SerialThread)
    \/ \E in \in AddInputs :
          AddOrphanedEntryReturn(SerialThread, in.ident, in.nss, in.row)
    \/ InitializeNewEntryCall(SerialThread)
    \/ \E in \in AddInputs :
          InitializeNewEntryReturn(SerialThread, in.ident, in.nss, in.row)
    \/ \E lk \in BOOLEAN : ImportCatalogEntryCall(SerialThread, lk)
    \/ \E in \in ImportInputs :
          ImportCatalogEntryReturn(SerialThread, in.nss, in.row)
    \/ \E id \in RecordIds : RemoveEntryCall(SerialThread, id)
    \/ RemoveEntryReturn(SerialThread)
    \/ PutRenamedEntryCall(SerialThread)
    \/ \E id \in RecordIds, nss \in NamespaceStrings :
          \E row \in RenamedEntries(SerialThread, id, nss) : PutRenamedEntryReturn(SerialThread, id, nss, row)
    \/ PutUpdatedEntryCall(SerialThread)
    \/ \E id \in RecordIds :
          \E row \in UpdatedEntries(SerialThread, id) : PutUpdatedEntryReturn(SerialThread, id, row)
    \/ \E id \in RecordIds : GetEntry(SerialThread, id)
    \/ GetAllCatalogEntriesCall(SerialThread)
    \/ GetAllCatalogEntriesReturn(SerialThread)
    \/ \E id \in RecordIds : GetNSSFromCatalogCall(SerialThread, id)
    \/ GetNSSFromCatalogReturn(SerialThread)
    \/ GetAllIdentsCall(SerialThread)
    \/ GetAllIdentsReturn(SerialThread)
    \/ \E id \in RecordIds : GetIndexIdentsCall(SerialThread, id)
    \/ GetIndexIdentsReturn(SerialThread)
    \/ \E id \in RecordIds : GetRawCatalogEntryCall(SerialThread, id)
    \/ GetRawCatalogEntryReturn(SerialThread)
    \/ \E id \in RecordIds : GetIndexIdentCall(SerialThread, id)
    \/ \E idxName \in IndexNames : GetIndexIdentReturn(SerialThread, idxName)

SpecSerial == InitSerial /\ [][NextSerial]_vars

\* One thread making one call, on each of the catalogs a call can find.
InitSingleCall == StartFrom(SingleCallStores, MaxSingleCalls)
SpecSingleCall == InitSingleCall /\ [][NextSerial]_vars

\* ------------------------------------------------------------- spill table
\* DiskSpaceMonitor: whether an action registered with thresholdBytes fires
\* when the monitor sees availableBytes.  It fires below the threshold and
\* not above it; exactly at the threshold either may be the case.
MonitorActs(bytes, thresholdBytes) ==
    IF bytes < thresholdBytes THEN {TRUE}
    ELSE IF bytes = thresholdBytes THEN BOOLEAN
    ELSE {FALSE}

\* SpillTable made by makeSpillTable: its disk space action is registered
\* and run once against the bytes available then.
diskStateAtCreation(bytes, thresholdBytes) == MonitorActs(bytes, thresholdBytes)

\* SpillTable::insertRecords of one record, rid being the RecordId the
\* record store assigns.
insertRecords(full, recs, rid, data) ==
    IF full THEN [status |-> "OutOfDiskSpace", threw |-> FALSE, records |-> recs]
    ELSE [status |-> "OK", threw |-> FALSE, records |-> [recs EXCEPT ![rid] = data]]

\* SpillTable::updateRecord
updateRecord(full, recs, rid, data) ==
    IF full THEN [status |-> "OutOfDiskSpace", threw |-> FALSE, records |-> recs]
    ELSE [status |-> "OK", threw |-> FALSE, records |-> [recs EXCEPT ![rid] = data]]

\* SpillTable::deleteRecord: returns nothing, the error is thrown.
deleteRecord(full, recs, rid) ==
    IF full THEN [status |-> "OutOfDiskSpace", threw |-> TRUE, records |-> recs]
    ELSE [status |-> "OK", threw |-> FALSE, records |-> [recs EXCEPT ![rid] = "none"]]

\* SpillTable::truncate
truncate(full, recs) ==
    IF full THEN [status |-> "OutOfDiskSpace", threw |-> FALSE, records |-> recs]
    ELSE [status |-> "OK", threw |-> FALSE, records |-> NoSpillRecords]

\* SpillTable::rangeTruncate(minRecordId, maxRecordId), both inclusive.
rangeTruncate(full, recs, minRecordId, maxRecordId) ==
    IF full THEN [status |-> "OutOfDiskSpace", threw |-> FALSE, records |-> recs]
    ELSE [status |-> "OK", threw |-> FALSE,
          records |-> [rid \in SpillRids |->
                          IF minRecordId <= rid /\ rid <= maxRecordId
                          THEN "none" ELSE recs[rid]]]

\* FailPointEnableBlock fp{"simulateAvailableDiskSpace", bytes}
SimulateAvailableDiskSpace(bytes) ==
    /\ availableBytes' = bytes
    /\ UNCHANGED << store, nextId, map, mutex, inited, fatal, physical,
                 active, snap, writes, changes, pc, call, ret,
                 rsResult, drops, mapAtBegin, disturbed, doomed,
                 mismatch, overlap, calls, txns, limit, spillMade,
                 spillFull, spillRecords, spillNextRid, spillRet,
                 spillOps, madeAt, ranBelow, ranAt >>

\* makeSpillTable(opCtx, KeyFormat::Long, thresholdBytes)
MakeSpillTable ==
    /\ ~spillMade
    /\ spillMade' = TRUE
    /\ spillFull' \in diskStateAtCreation(availableBytes, ThresholdBytes)
    /\ madeAt' = availableBytes
    /\ UNCHANGED << store, nextId, map, mutex, inited, fatal, physical,
                 active, snap, writes, changes, pc, call, ret,
                 rsResult, drops, mapAtBegin, disturbed, doomed,
                 mismatch, overlap, calls, txns, limit,
                 availableBytes, spillRecords, spillNextRid,
                 spillRet, spillOps, ranBelow, ranAt >>

\* DiskSpaceMonitor::runAllActions: the table's action fires or not on the
\* bytes available; once fired it stays fired.
RunAllActions ==
    /\ spillMade
    /\ \E acts \in MonitorActs(availableBytes, ThresholdBytes) :
          spillFull' = (spillFull \/ acts)
    /\ ranBelow' = (ranBelow \/ availableBytes < ThresholdBytes)
    /\ ranAt' = (ranAt \/ availableBytes = ThresholdBytes)
    /\ UNCHANGED << store, nextId, map, mutex, inited, fatal, physical,
                 active, snap, writes, changes, pc, call, ret,
                 rsResult, drops, mapAtBegin, disturbed, doomed,
                 mismatch, overlap, calls, txns, limit,
                 availableBytes, spillMade, spillRecords,
                 spillNextRid, spillRet, spillOps, madeAt >>

\* A write of the spill table has answered r.
SpillDone(op, r) ==
    /\ spillOps' = spillOps + 1
    /\ spillRecords' = r.records
    /\ spillRet' = SpillRet(op, r.status, r.threw)

CanWrite == spillMade /\ spillOps < MaxSpillOps

\* spillTable->insertRecords(opCtx, &records), one record with no RecordId
InsertRecords(data) ==
    /\ CanWrite
    /\ spillFull \/ spillNextRid <= MaxRid
    /\ LET r == insertRecords(spillFull, spillRecords, spillNextRid, data)
       IN /\ SpillDone("insertRecords", r)
          /\ spillNextRid' = IF r.status = "OK" THEN spillNextRid + 1
                             ELSE spillNextRid
    /\ UNCHANGED << store, nextId, map, mutex, inited, fatal, physical,
                 active, snap, writes, changes, pc, call, ret,
                 rsResult, drops, mapAtBegin, disturbed, doomed,
                 mismatch, overlap, calls, txns, limit,
                 availableBytes, spillMade, spillFull, madeAt,
                 ranBelow, ranAt >>

\* spillTable->updateRecord(opCtx, rid, data): of a record of the table, or
\* of any RecordId once the table is full.
UpdateRecord(rid, data) ==
    /\ CanWrite
    /\ spillFull \/ spillRecords[rid] # "none"
    /\ SpillDone("updateRecord", updateRecord(spillFull, spillRecords, rid, data))
    /\ UNCHANGED << store, nextId, map, mutex, inited, fatal, physical,
                 active, snap, writes, changes, pc, call, ret,
                 rsResult, drops, mapAtBegin, disturbed, doomed,
                 mismatch, overlap, calls, txns, limit,
                 availableBytes, spillMade, spillFull, spillNextRid,
                 madeAt, ranBelow, ranAt >>

\* spillTable->deleteRecord(opCtx, rid)
DeleteRecord(rid) ==
    /\ CanWrite
    /\ spillFull \/ spillRecords[rid] # "none"
    /\ SpillDone("deleteRecord", deleteRecord(spillFull, spillRecords, rid))
    /\ UNCHANGED << store, nextId, map, mutex, inited, fatal, physical,
                 active, snap, writes, changes, pc, call, ret,
                 rsResult, drops, mapAtBegin, disturbed, doomed,
                 mismatch, overlap, calls, txns, limit,
                 availableBytes, spillMade, spillFull, spillNextRid,
                 madeAt, ranBelow, ranAt >>

\* spillTable->truncate(opCtx)
Truncate ==
    /\ CanWrite
    /\ SpillDone("truncate", truncate(spillFull, spillRecords))
    /\ UNCHANGED << store, nextId, map, mutex, inited, fatal, physical,
                 active, snap, writes, changes, pc, call, ret,
                 rsResult, drops, mapAtBegin, disturbed, doomed,
                 mismatch, overlap, calls, txns, limit,
                 availableBytes, spillMade, spillFull, spillNextRid,
                 madeAt, ranBelow, ranAt >>

\* spillTable->rangeTruncate(opCtx, minRecordId, maxRecordId)
RangeTruncate(minRecordId, maxRecordId) ==
    /\ CanWrite
    /\ minRecordId <= maxRecordId
    /\ SpillDone("rangeTruncate",
                 rangeTruncate(spillFull, spillRecords, minRecordId, maxRecordId))
    /\ UNCHANGED << store, nextId, map, mutex, inited, fatal, physical,
                 active, snap, writes, changes, pc, call, ret,
                 rsResult, drops, mapAtBegin, disturbed, doomed,
                 mismatch, overlap, calls, txns, limit,
                 availableBytes, spillMade, spillFull, spillNextRid,
                 madeAt, ranBelow, ranAt >>

\* The spill table alone, the catalog left as constructed.
NextSpill ==
    \/ \E bytes \in Bytes : SimulateAvailableDiskSpace(bytes)
    \/ MakeSpillTable
    \/ RunAllActions
    \/ \E data \in SpillData : InsertRecords(data)
    \/ \E rid \in SpillRids, data \in SpillData : UpdateRecord(rid, data)
    \/ \E rid \in SpillRids : DeleteRecord(rid)
    \/ Truncate
    \/ \E lo \in SpillRids, hi \in SpillRids : RangeTruncate(lo, hi)

SpecSpill == Init /\ [][NextSpill]_vars

\* -------------------------------------------------------------- properties
Mutators ==
    {"addOrphanedEntry", "initializeNewEntry", "importCatalogEntry",
     "removeEntry", "putRenamedEntry", "putUpdatedEntry"}
AddOps == {"addOrphanedEntry", "initializeNewEntry", "importCatalogEntry"}

\* No transaction is open and no call is in progress.
Quiescent == \A t \in Threads : ~active[t] /\ pc[t] = "idle"

\* The step ends thread t's transaction by rollback / by commit.
Aborts(t) == active[t] /\ ~active'[t] /\ ret'[t].op = "abort"
Commits(t) == active[t] /\ ~active'[t] /\ ret'[t].op = "commit"

\* The step is a mutator of thread t returning a failure to its caller.
FailedReturn(t) ==
    /\ pc'[t] = "idle" /\ fatal' = "none"
    /\ (pc[t] # "idle" \/ ret'[t] # ret[t])
    /\ ret'[t].op \in Mutators /\ ret'[t].status # "OK"

\* The entries a map holds, and the entries of a sequence.
Entries(m) == {m[id] : id \in {i \in RecordIds : m[i].present}}
Range(s) == {s[i] : i \in 1..Len(s)}

\* C1: when a transaction that ran any mutators aborts, its handlers running
\* in reverse registration order, and no other transaction changed the map
\* while it was open, the map after the abort is the map as it was when the
\* transaction began.
C1_AbortRestoresMap ==
    [][\A t \in Threads :
         (Aborts(t) /\ ~disturbed[t]) => map' = mapAtBegin[t]]_vars

\* A transaction that renamed and then removed a committed entry has aborted
\* and the map is again what it was.
C1_Witness ==
    \E t \in Threads :
        /\ ret[t].op = "abort" /\ ret[t].ran = << "RenameBack", "Reinsert" >>
        /\ ~disturbed[t] /\ map = mapAtBegin[t] /\ map # EmptyMap

\* C2: in every state with no transaction in flight, whatever the
\* interleaving of the transactions before, the map holds exactly what a
\* full scan of the committed records yields (the documents written having
\* agreed with the ident and namespace arguments).
C2_QuiescentMapIsScan ==
    (Quiescent /\ inited /\ fatal = "none" /\ ~mismatch)
        => map = init(store, EmptyMap)

\* C3: with transactions run one after the other and every document written
\* agreeing with the ident and namespace arguments, after each commit the
\* entries of the map are those getAllCatalogEntries returns and those a
\* fresh init loads.
C3_SerialMapIsStore ==
    (Quiescent /\ inited /\ fatal = "none" /\ ~mismatch /\ ~overlap)
        => /\ map = init(store, EmptyMap)
           /\ Entries(map) = Range(getAllCatalogEntries(store))

\* An add followed by a rename has been committed, alone.
C3_Witness ==
    /\ Quiescent /\ fatal = "none" /\ ~mismatch /\ ~overlap
    /\ \E t \in Threads :
          ret[t].op = "commit" /\ ret[t].ran = << "AddIdent", "RenameBack" >>
    /\ Entries(map) # {}
    /\ Entries(map) = Range(getAllCatalogEntries(store))

\* C4 as stated: whenever a mutator returns a failure, the map at the return
\* is the map as it was before the call.
C4_FailureLeavesMap ==
    [][\A t \in Threads : FailedReturn(t) => map' = map]_vars

\* C4, amended: a mutator that fails on its insert, its lookup or a write
\* conflict returns with the map as it was; initializeNewEntry failing in
\* createRecordStore and importCatalogEntry failing in an import return with
\* the new entry in the map and its AddIdentChange registered, so that the
\* entry leaves the map only when the transaction rolls back.
C4_FailureLeavesMapOrProvisionalEntry ==
    [][\A t \in Threads : FailedReturn(t) =>
         IF ret'[t].status \in {"CreateFailed", "ImportFailed"}
         THEN /\ ~map[ret'[t].id].present
              /\ map' = [map EXCEPT ![ret'[t].id] =
                            EntryIdentifier(ret'[t].id, ret'[t].arg.ident,
                                            ret'[t].arg.nss)]
              /\ \E i \in 1..Len(changes'[t]) :
                    changes'[t][i].kind = "AddIdent" /\ changes'[t][i].id = ret'[t].id
         ELSE map' = map]_vars

\* importCatalogEntry has returned an import failure and the entry it added
\* is in the map of its open transaction.
C4_Witness ==
    \E t \in Threads :
        /\ active[t] /\ ret[t].status = "ImportFailed"
        /\ map[ret[t].id].present /\ ~mapAtBegin[t][ret[t].id].present

\* The step is updateRecord answering thread t's putRenamedEntry or
\* putUpdatedEntry.
UpdateAnswers(t) == pc[t] = "updateRecord" /\ rsResult'[t] # "none"

C7_RemoveAbsentIsNotFound ==
    [][\A t \in Threads :
         /\ (ret'[t] # ret[t] /\ ret'[t].status = "NamespaceNotFound")
               => /\ ret'[t].op = "removeEntry"
                  /\ ~map[ret'[t].id].present
                  /\ pc'[t] = "idle"
                  /\ map' = map /\ writes' = writes /\ store' = store
                  /\ changes' = changes
         /\ (pc[t] = "idle" /\ pc'[t] = "deleteRecord")
               => map[call'[t].id].present]_vars

\* A transaction that removed a catalogId has called removeEntry on it again
\* and got NamespaceNotFound.
C7_Witness ==
    \E t \in Threads :
        /\ active[t] /\ ret[t].op = "removeEntry"
        /\ ret[t].status = "NamespaceNotFound"
        /\ writes[t][ret[t].id].kind = "deleted"
        /\ Len(changes[t]) = 1 /\ changes[t][1].id = ret[t].id

\* C8: when insertRecord fails in addOrphanedEntry, initializeNewEntry or
\* importCatalogEntry, the call returns the status insertRecord gave, with no
\* second insert, the map unchanged, no change registered and no physical
\* storage created or imported.
C8_InsertFailureReturned ==
    [][\A t \in Threads :
         (pc[t] = "insertRecord" /\ rsResult'[t] \in StoreErrors)
            => /\ ret'[t].op = call[t].op
               /\ ret'[t].status = rsResult'[t]
               /\ pc'[t] = "idle" /\ fatal' = "none"
               /\ nextId' = nextId /\ writes' = writes
               /\ map' = map /\ changes' = changes /\ physical' = physical]_vars

\* importCatalogEntry has returned insertRecord's OutOfDiskSpace.
C8_Witness ==
    \E t \in Threads :
        /\ active[t] /\ ret[t].op = "importCatalogEntry"
        /\ rsResult[t] = "OutOfDiskSpace" /\ ret[t].status = "OutOfDiskSpace"
        /\ changes[t] = << >> /\ map = mapAtBegin[t] /\ physical = {}

\* The step is thread t's getEntry(id) returning.
GetEntryReturns(t, id) ==
    /\ pc[t] = "idle" /\ ret'[t] # ret[t]
    /\ ret'[t].op = "getEntry" /\ ret'[t].id = id

\* C9: from the return of a successful add until the transaction's next call
\* or end, getEntry of the catalogId the add returned yields (that catalogId,
\* the ident given, the namespace given), and a getEntry call made then
\* returns it;
\* and when a transaction that added an entry aborts, the map and the
\* committed records having been empty when it began and no other
\* transaction having changed the map, the map is empty and
\* getAllCatalogEntries returns the empty sequence.
C9_AddVisibleThenUndone ==
    [][\A t \in Threads :
         /\ (active[t] /\ ret[t].op \in AddOps /\ ret[t].status = "OK"
                /\ GetEntryReturns(t, ret[t].id))
               => ret'[t].entries =
                     << EntryIdentifier(ret[t].id, ret[t].arg.ident, ret[t].arg.nss) >>
         /\ (active'[t] /\ ret'[t].op \in AddOps /\ ret'[t].status = "OK")
               => getEntry(map', ret'[t].id) =
                     [fatal |-> FALSE,
                      entry |-> EntryIdentifier(ret'[t].id, ret'[t].arg.ident,
                                                ret'[t].arg.nss)]
         /\ (Aborts(t) /\ ~disturbed[t] /\ mapAtBegin[t] = EmptyMap
                /\ snap[t] = EmptyStore
                /\ \E i \in 1..Len(changes[t]) : changes[t][i].kind = "AddIdent")
               => /\ map' = EmptyMap
                  /\ getAllCatalogEntries(store') = << >>]_vars

\* getEntry has returned, inside the transaction that added it, the one
\* entry that transaction added.
C9_Witness ==
    \E t \in Threads :
        /\ active[t] /\ ret[t].op = "getEntry"
        /\ Len(changes[t]) = 1 /\ changes[t][1].kind = "AddIdent"
        /\ changes[t][1].id = ret[t].id
        /\ ret[t].entries = << map[ret[t].id] >>
        /\ writes[t][ret[t].id].kind = "entry"
        /\ writes[t][ret[t].id].ident = map[ret[t].id].ident

\* The transaction of thread t has done nothing but remove the committed
\* entry id, and no other transaction has changed the map since it began.
OnlyRemoved(t, id) ==
    /\ ~disturbed[t]
    /\ Len(changes[t]) = 1 /\ changes[t][1].kind = "Reinsert"
    /\ changes[t][1].id = id
    /\ store[id].kind = "entry"

\* C10: removeEntry of a committed entry takes it out of the map in the same
\* call; if the transaction then aborts (no other transaction having changed
\* the map meanwhile) the map again holds for that catalogId the entry it
\* held just before the call; if it commits, the entry stays out of the map
\* and its record is gone.
C10_RemoveThenAbortOrCommit ==
    [][\A t \in Threads :
         /\ (pc[t] = "deleteRecord" /\ rsResult'[t] = "OK")
               => /\ ~map'[call[t].id].present
                  /\ changes[t][Len(changes[t])].entry = map[call[t].id]
         /\ \A id \in RecordIds :
              /\ (Aborts(t) /\ OnlyRemoved(t, id))
                    => /\ map'[id].present
                       /\ map'[id] = changes[t][1].entry
                       /\ map'[id] = mapAtBegin[t][id]
              /\ (Commits(t) /\ OnlyRemoved(t, id))
                    => /\ ~map'[id].present
                       /\ store'[id] = NoRow]_vars

\* A transaction that removed a committed entry has aborted and the entry is
\* back in the map.
C10_Witness ==
    \E t \in Threads :
        /\ ret[t].op = "abort" /\ ret[t].ran = << "Reinsert" >>
        /\ ~disturbed[t]
        /\ \E id \in RecordIds :
              /\ store[id].kind = "entry" /\ map[id].present
              /\ map[id] = mapAtBegin[t][id]

\* C11: a transaction whose one change is a rename of an entry and that no
\* other transaction disturbed leaves, when it aborts, the map and the
\* committed records as they were when it began (the entry bears its old
\* namespace); when it commits right after the rename returned, the map is
\* the map at its beginning with that one namespace replaced by the new one,
\* no compensation remains, and the committed document bears the namespace
\* written.  What the commit leaves depends on the state at the beginning
\* only, which an aborted attempt has not changed.
C11_RenameAbortThenRenameCommit ==
    [][\A t \in Threads :
         LET chs == changes[t] IN
         (Len(chs) = 1 /\ chs[1].kind = "RenameBack" /\ ~disturbed[t]) =>
            /\ Aborts(t) =>
                  /\ map' = mapAtBegin[t]
                  /\ map'[chs[1].id].nss = chs[1].entry.nss
                  /\ store' = store
            /\ (Commits(t) /\ ret[t].op = "putRenamedEntry") =>
                  /\ map' = [mapAtBegin[t] EXCEPT
                                ![chs[1].id].nss = ret[t].arg.nss]
                  /\ changes'[t] = << >>
                  /\ store'[chs[1].id] = writes[t][chs[1].id]]_vars

\* A rename of the committed entry has been rolled back and a rename of it
\* to b committed, one transaction after the other: the entry and its
\* committed document bear b.
C11_Witness ==
    /\ ~overlap /\ txns = 2 /\ fatal = "none"
    /\ \E t \in Threads : \E u \in Threads \ {t} :
          /\ ret[u].op = "abort" /\ ret[u].ran = << "RenameBack" >>
          /\ ret[t].op = "commit" /\ ret[t].ran = << "RenameBack" >>
    /\ map[1].present /\ map[1].nss = Nss("b") /\ store[1].ns = "db.b"

\* C12: getNSSFromCatalog answers from the map whenever the map holds the
\* catalogId, with the namespace cached there; it goes on to the record
\* store only when the map does not hold it, and then returns the namespace
\* of the collection record the caller's snapshot holds under that RecordId;
\* it fails with tassert 9117800 exactly when the map did not hold the
\* catalogId and the snapshot holds no record under it.
C12_CachedElseSnapshotElseAssert ==
    [][\A t \in Threads :
         /\ (pc[t] = "idle" /\ pc'[t] = "idle" /\ ret'[t] # ret[t]
               /\ ret'[t].op = "getNSSFromCatalog") =>
               /\ map[ret'[t].id].present
               /\ ret'[t].status = "OK"
               /\ ret'[t].arg.nss = map[ret'[t].id].nss
         /\ (pc[t] = "idle" /\ pc'[t] = "cursor"
               /\ call'[t].op = "getNSSFromCatalog") =>
               ~map[call'[t].id].present
         /\ (pc[t] = "cursor" /\ call[t].op = "getNSSFromCatalog"
               /\ pc'[t] = "idle") =>
               LET row == View(t)[call[t].id] IN
               /\ ret'[t].op = "getNSSFromCatalog" /\ ret'[t].id = call[t].id
               /\ row.kind = "entry" =>
                     /\ ret'[t].status = "OK"
                     /\ ret'[t].arg.nss = parseFromString(row.ns)
               /\ (row.kind = "none") <=> (ret'[t].status = "tassert9117800")]_vars

\* getNSSFromCatalog has returned the namespace of a record that the map no
\* longer holds and that the caller's snapshot still has.
C12_Witness ==
    \E t \in Threads :
        /\ ret[t].op = "getNSSFromCatalog" /\ ret[t].status = "OK"
        /\ rsResult[t] = "OK"
        /\ ~map[ret[t].id].present
        /\ ret[t].arg.nss = Nss("a")
        /\ View(t)[ret[t].id].kind = "entry"

\* The step is thread t's importCatalogEntry returning after its insertRecord
\* succeeded, whether the import then succeeded or failed.
ImportInserted(t) ==
    /\ pc[t] = "insertRecord" /\ call[t].op = "importCatalogEntry"
    /\ pc'[t] = "idle" /\ fatal' = "none"
    /\ ret'[t].status \in {"OK", "ImportFailed"}

\* C13: an importCatalogEntry whose insertRecord succeeded has, when it
\* returns with success or with an import failure, registered the removal of
\* its map entry and after it the drop of the document's ident and of every
\* ident under the document's idxIdent; when the transaction aborts, every
\* ident so registered is dropped and is no longer physical storage, and
\* every catalogId the transaction added is absent from the map.
C13_ImportAbortDropsEveryIdent ==
    [][\A t \in Threads :
         /\ ImportInserted(t) =>
               LET id == ret'[t].id
                   row == writes'[t][id]
                   reg == changes'[t]
                   n == Len(changes[t])
               IN /\ Len(reg) = n + 2
                  /\ \A i \in 1..n : reg[i] = changes[t][i]
                  /\ reg[n + 1].kind = "AddIdent" /\ reg[n + 1].id = id
                  /\ reg[n + 2].kind = "DropImport"
                  /\ reg[n + 2].ident = row.ident
                  /\ row.idx.has =>
                        /\ Len(reg[n + 2].idents) = Len(row.idx.elems)
                        /\ \A i \in 1..Len(row.idx.elems) :
                               reg[n + 2].idents[i] = row.idx.elems[i].ident
         /\ Aborts(t) =>
               \A i \in 1..Len(changes[t]) :
                  LET ch == changes[t][i] IN
                  /\ ch.kind = "DropImport" =>
                        /\ ch.ident \in Range(drops'[t])
                        /\ Range(ch.idents) \subseteq Range(drops'[t])
                        /\ ch.ident \notin physical'
                        /\ Range(ch.idents) \cap physical' = {}
                  /\ ch.kind = "AddIdent" => ~map'[ch.id].present]_vars

\* A transaction that imported a collection with two indexes has aborted:
\* the collection ident and both index idents were dropped, in that order,
\* and the map no longer holds the entry.
C13_Witness ==
    \E t \in Threads :
        /\ ret[t].op = "abort" /\ ret[t].ran = << "AddIdent", "DropImport" >>
        /\ drops[t] = << "i2", "idxA", "idxB" >>
        /\ physical = {}
        /\ \A id \in RecordIds : map[id].present => map[id].ident # "i2"

\* The step is thread t's transaction running its rollback with a drop
\* among its registered changes.
RollsBackDrops(t) == active[t] /\ drops[t] = << >> /\ drops'[t] # << >>

\* C14: an initializeNewEntry that created the physical storage has, when it
\* returns, registered the drop of its ident after the removal of its map
\* entry; when the transaction rolls back, the drop of every such ident is
\* attempted, and whether or not the engine's drop succeeds the rollback
\* ends the transaction without terminating the process and with every
\* catalogId the transaction added absent from the map.
C14_CreateAbortDropFailureIgnored ==
    [][\A t \in Threads :
         /\ (pc[t] = "insertRecord" /\ call[t].op = "initializeNewEntry"
               /\ pc'[t] = "idle" /\ fatal' = "none" /\ ret'[t].status = "OK") =>
               LET reg == changes'[t]
                   n == Len(changes[t])
               IN /\ ret'[t].arg.ident \in physical'
                  /\ Len(reg) = n + 2
                  /\ reg[n + 1].kind = "AddIdent" /\ reg[n + 1].id = ret'[t].id
                  /\ reg[n + 2].kind = "DropIdent"
                  /\ reg[n + 2].ident = ret'[t].arg.ident
         /\ RollsBackDrops(t) =>
               /\ fatal' = "none" /\ ~active'[t] /\ ret'[t].op = "abort"
               /\ \A i \in 1..Len(changes[t]) :
                     LET ch == changes[t][i] IN
                     /\ ch.kind = "DropIdent" => ch.ident \in Range(drops'[t])
                     /\ ch.kind = "AddIdent" => ~map'[ch.id].present]_vars

\* The one transaction run created a collection and aborted; the drop of its
\* ident was attempted and failed (the storage is still there), and the map
\* does not hold the catalogId the call was given.
C14_Witness ==
    /\ txns = 1 /\ calls = 1 /\ fatal = "none"
    /\ \E t \in Threads :
          /\ ~active[t] /\ ret[t].op = "abort"
          /\ ret[t].ran = << "AddIdent", "DropIdent" >>
          /\ Len(drops[t]) = 1 /\ drops[t][1] \in physical
    /\ ~map[nextId - 1].present

\* C15: an importCatalogEntry called without the database locked in
\* intent-exclusive mode terminates the process on _importEntry's invariant
\* with the record store, the transaction's writes, the map, the registered
\* changes and the physical storage untouched; an importCatalogEntry that
\* goes on to insertRecord was called with the lock held.
C15_ImportWithoutLockIsFatal ==
    [][/\ (fatal = "none" /\ fatal' = "invariantDbLockedIX") =>
             /\ \E t \in Threads :
                    /\ call'[t].op = "importCatalogEntry"
                    /\ ~call'[t].dbLockedIX
                    /\ pc'[t] = "idle"
             /\ UNCHANGED << store, nextId, writes, map, changes, physical >>
       /\ \A t \in Threads :
             (pc[t] = "idle" /\ pc'[t] = "insertRecord"
                /\ call'[t].op = "importCatalogEntry") => call'[t].dbLockedIX
       /\ \A t \in Threads :
             (call'[t] # call[t] /\ call'[t].op = "importCatalogEntry"
                /\ ~call'[t].dbLockedIX) => fatal' = "invariantDbLockedIX"]_vars

\* importCatalogEntry was called without the lock on a populated catalog:
\* the process has terminated, and the transaction has written no record and
\* registered no change.
C15_Witness ==
    /\ fatal = "invariantDbLockedIX"
    /\ \E t \in Threads :
          /\ call[t].op = "importCatalogEntry" /\ ~call[t].dbLockedIX
          /\ pc[t] = "idle" /\ active[t]
          /\ changes[t] = << >> /\ writes[t] = NoWrites
          /\ \E id \in RecordIds : map[id].present /\ store[id].kind = "entry"
          /\ physical = {}

\* importCatalogEntry was called without the lock inside a transaction that
\* had already added an entry: the process has terminated and the call left
\* nothing behind.
C15_WitnessAfterAdd ==
    /\ fatal = "invariantDbLockedIX"
    /\ \E t \in Threads :
          /\ call[t].op = "importCatalogEntry" /\ ~call[t].dbLockedIX
          /\ pc[t] = "idle"
          /\ ret[t].op = "addOrphanedEntry" /\ ret[t].status = "OK"
          /\ changes[t] = << Change("AddIdent", ret[t].id, NoEntry, "", << >>) >>
          /\ \A id \in RecordIds :
                writes[t][id].kind # "untouched" <=> id = ret[t].id

\* The idents a registered change drops when it rolls back.
DropsOf(ch) ==
    CASE ch.kind = "DropIdent" -> << ch.ident >>
      [] ch.kind = "DropImport" -> << ch.ident >> \o ch.idents
      [] OTHER -> << >>

\* The idents dropped when the changes run from the last registered to the
\* first.
RECURSIVE DropsLastFirst(_)
DropsLastFirst(chs) ==
    IF chs = << >> THEN << >>
    ELSE DropsOf(chs[Len(chs)]) \o DropsLastFirst(SubSeq(chs, 1, Len(chs) - 1))

\* C16: whatever mutators a transaction has run, on one catalogId or on
\* several, its rollback takes the registered changes from the last to the
\* first: the idents are dropped in that order and the map is again the map
\* at the transaction's beginning; the invariant in putRenamedEntry's closure
\* (the entry is present when the namespace is put back) never fails.
C16_RollbackLastFirstRenameInvariantHolds ==
    [][/\ fatal' # "invariantRenameRollback"
       /\ \A t \in Threads :
             Aborts(t) => /\ drops'[t] = DropsLastFirst(changes[t])
                          /\ map' = mapAtBegin[t]]_vars

\* A transaction that added an entry, renamed it and removed it has
\* aborted: the three compensations ran and the map is what it was.
C16_Witness ==
    \E t \in Threads :
        /\ ret[t].op = "abort" /\ fatal = "none"
        /\ ret[t].ran = << "AddIdent", "RenameBack", "Reinsert" >>
        /\ map = mapAtBegin[t]

\* A transaction that created one collection and imported another has
\* aborted: the imported idents were dropped before the created one.
C16_WitnessDrops ==
    \E t \in Threads :
        /\ ret[t].op = "abort"
        /\ ret[t].ran = << "AddIdent", "DropIdent", "AddIdent", "DropImport" >>
        /\ drops[t] = << "i2", "idxA", "idxB", "i1" >>

\* The step is thread t's putRenamedEntry returning after it renamed.
Renames(t) ==
    /\ pc[t] = "updateRecord" /\ call[t].op = "putRenamedEntry"
    /\ pc'[t] = "idle" /\ fatal' = "none" /\ ret'[t].status = "OK"

\* C17: every element of the map is stored under its own catalogId; as long
\* as a key stays in the map its ident does not change; a key enters the map
\* only as the RecordId insertRecord has just handed out, at init, or with
\* the ident of the element a removeEntry captured from the map under that
\* key; and
\* a putRenamedEntry changes nothing in the map but the namespace of the one
\* element it names.
C17_KeyAndIdentFixedRenameOnlyNamespace ==
    [][/\ \A k \in RecordIds :
             /\ map'[k].present => map'[k].catalogId = k
             /\ (map[k].present /\ map'[k].present) => map'[k].ident = map[k].ident
             /\ (inited /\ ~map[k].present /\ map'[k].present) =>
                   \/ k = nextId /\ nextId' = nextId + 1
                   \/ \E t \in Threads : \E i \in 1..Len(changes[t]) :
                         /\ changes[t][i].kind = "Reinsert"
                         /\ changes[t][i].id = k
                         /\ changes[t][i].entry.catalogId = k
                         /\ changes[t][i].entry.ident = map'[k].ident
       /\ \A t \in Threads :
             /\ (Len(changes'[t]) = Len(changes[t]) + 1
                   /\ changes'[t][Len(changes'[t])].kind = "Reinsert") =>
                   LET ch == changes'[t][Len(changes'[t])] IN
                   map[ch.id].present /\ ch.entry = map[ch.id]
             /\ Renames(t) =>
                   map' = [map EXCEPT ![ret'[t].id].nss = ret'[t].arg.nss]]_vars

\* The committed entry has been renamed to b by a transaction that
\* committed: it is still stored under catalogId 1 with ident i1.
C17_Witness ==
    /\ \E t \in Threads :
          ret[t].op = "commit" /\ ret[t].ran = << "RenameBack" >>
    /\ map[1] = EntryIdentifier(1, "i1", Nss("b"))
    /\ store[1].ident = "i1"

\* No two elements of map m bear the same namespace / the same ident.
UniqueNamespaces(m) ==
    \A j, k \in RecordIds :
        (j # k /\ m[j].present /\ m[k].present) => m[j].nss # m[k].nss
UniqueIdents(m) ==
    \A j, k \in RecordIds :
        (j # k /\ m[j].present /\ m[k].present) => m[j].ident # m[k].ident

\* Another element of m than the one under catalogId bears the namespace /
\* the ident.
NamespaceHeld(m, nss, catalogId) ==
    \E k \in RecordIds \ {catalogId} : m[k].present /\ m[k].nss = nss
IdentHeld(m, ident, catalogId) ==
    \E k \in RecordIds \ {catalogId} : m[k].present /\ m[k].ident = ident

\* The step is thread t's addOrphanedEntry, initializeNewEntry or
\* importCatalogEntry returning after its insertRecord succeeded.
Adds(t) ==
    /\ pc[t] = "insertRecord" /\ call[t].op \in AddOps
    /\ pc'[t] = "idle" /\ fatal' = "none"
    /\ ret'[t].status \in {"OK", "CreateFailed", "ImportFailed"}

\* C18 as stated: in every reachable state no two entries of the map bear
\* the same namespace.
C18_NoTwoEntriesShareNamespace == UniqueNamespaces(map)

\* C18, amended: an add, an import and a rename take the namespace they are
\* given whether or not another entry of the map bears it; the call leaves a
\* map without two entries of one namespace exactly when the map had none
\* before and no other entry bore the namespace given; and a rollback that no
\* other transaction disturbed leaves such a map when the transaction began
\* with one.
C18_NamespaceUniqueOnlyIfCallersKeepIt ==
    [][\A t \in Threads :
         /\ (Adds(t) \/ Renames(t)) =>
               LET id == ret'[t].id
                   nss == ret'[t].arg.nss
               IN /\ map'[id].present /\ map'[id].nss = nss
                  /\ NamespaceHeld(map, nss, id) => ~UniqueNamespaces(map')
                  /\ (UniqueNamespaces(map) /\ ~NamespaceHeld(map, nss, id))
                        => UniqueNamespaces(map')
         /\ (Aborts(t) /\ ~disturbed[t] /\ UniqueNamespaces(mapAtBegin[t]))
               => UniqueNamespaces(map')]_vars

\* An add has returned OK and another entry of the map bears the namespace
\* it was given.
C18_Witness ==
    \E t \in Threads :
        /\ ret[t].op \in AddOps /\ ret[t].status = "OK"
        /\ map[ret[t].id].present /\ map[ret[t].id].nss = ret[t].arg.nss
        /\ NamespaceHeld(map, ret[t].arg.nss, ret[t].id)

\* C19 as stated: an add whose ident is the ident of a live entry is
\* rejected, so that no two entries of the map bear the same ident.
C19_NoTwoEntriesShareIdent == UniqueIdents(map)

\* C19, amended: an add or import whose insertRecord succeeded caches the
\* ident it is given (for an import, the ident of the document) whether or
\* not a live entry bears it; it leaves a map without two entries of one
\* ident exactly when the map had none before and no live entry bore the
\* ident given.
C19_IdentUniqueOnlyIfCallersKeepIt ==
    [][\A t \in Threads :
         Adds(t) =>
            LET id == ret'[t].id
                ident == ret'[t].arg.ident
            IN /\ map'[id].present /\ map'[id].ident = ident
               /\ IdentHeld(map, ident, id) => ~UniqueIdents(map')
               /\ (UniqueIdents(map) /\ ~IdentHeld(map, ident, id))
                     => UniqueIdents(map')]_vars

\* An add has returned OK and another entry of the map bears the ident it
\* was given.
C19_Witness ==
    \E t \in Threads :
        /\ ret[t].op \in AddOps /\ ret[t].status = "OK"
        /\ map[ret[t].id].present /\ map[ret[t].id].ident = ret[t].arg.ident
        /\ IdentHeld(map, ret[t].arg.ident, ret[t].id)

\* Thread u's open transaction has a change of catalogId to the map that it
\* has not committed.
Uncommitted(u, catalogId) ==
    /\ active[u]
    /\ \E i \in 1..Len(changes[u]) :
          /\ changes[u][i].kind \in {"AddIdent", "Reinsert", "RenameBack"}
          /\ changes[u][i].id = catalogId

\* The step is thread t's getNSSFromCatalog(id) answered from the map.
GetNSSCachedReturns(t, id) ==
    /\ pc[t] = "idle" /\ pc'[t] = "idle" /\ ret'[t] # ret[t]
    /\ ret'[t].op = "getNSSFromCatalog" /\ ret'[t].id = id

\* C20 as stated: what getEntry and getNSSFromCatalog return to a thread for
\* a catalogId that another thread's open transaction has added, removed or
\* renamed is what the map held for it when that transaction began.
C20_UncommittedChangeNotObserved ==
    [][\A t \in Threads : \A u \in Threads \ {t} : \A id \in RecordIds :
         /\ (GetEntryReturns(t, id) /\ Uncommitted(u, id)) =>
               ret'[t].entries = << mapAtBegin[u][id] >>
         /\ (GetNSSCachedReturns(t, id) /\ Uncommitted(u, id)) =>
               /\ mapAtBegin[u][id].present
               /\ ret'[t].arg.nss = mapAtBegin[u][id].nss]_vars

\* C20, amended: getEntry and the map lookup of getNSSFromCatalog answer
\* from the map as it stands at the moment of the call, whatever transaction
\* put the element there and whether or not it has committed: getEntry
\* returns the element the map holds and fails its invariant when the map
\* holds none, getNSSFromCatalog returns the namespace the map holds; only
\* when the map holds none does getNSSFromCatalog read the record store, at
\* the caller's snapshot.
C20_ReadersSeeTheMapAsItStands ==
    [][/\ \A t \in Threads : \A id \in RecordIds :
             /\ GetEntryReturns(t, id) =>
                   map[id].present /\ ret'[t].entries = << map[id] >>
             /\ GetNSSCachedReturns(t, id) =>
                   map[id].present /\ ret'[t].arg.nss = map[id].nss
             /\ (pc[t] = "cursor" /\ call[t].op = "getNSSFromCatalog"
                   /\ call[t].id = id /\ pc'[t] = "idle"
                   /\ ret'[t].status = "OK") =>
                   ret'[t].arg.nss = parseFromString(View(t)[id].ns)
       /\ (fatal = "none" /\ fatal' = "invariantGetEntry") =>
             \E t \in Threads :
                 call'[t].op = "getEntry" /\ ~map[call'[t].id].present]_vars

\* getEntry has returned to one thread an entry that another thread's open
\* transaction added and has not committed: the committed records hold no
\* such record.
C20_Witness ==
    \E t \in Threads : \E u \in Threads \ {t} :
        /\ ret[t].op = "getEntry" /\ ret[t].status = "OK"
        /\ ret[t].entries = << map[ret[t].id] >>
        /\ active[u]
        /\ \E i \in 1..Len(changes[u]) :
              changes[u][i].kind = "AddIdent" /\ changes[u][i].id = ret[t].id
        /\ store[ret[t].id].kind = "none"

\* The entry a full scan makes of the collection record row under id.
EntryOfRow(id, row) == EntryIdentifier(id, row.ident, parseFromString(row.ns))

\* Map m holds, of the records rows, exactly every collection record under
\* its RecordId with its ident and ns, and nothing for any other RecordId.
LoadedFrom(m, rows) ==
    \A id \in RecordIds :
        IF rows[id].kind = "entry" THEN m[id] = EntryOfRow(id, rows[id])
        ELSE ~m[id].present

\* The step is thread t's reader op returning from its cursor.
ReaderReturns(t, op) ==
    pc[t] = "cursor" /\ call[t].op = op /\ pc'[t] = "idle"

\* C21: init runs on the empty map and leaves in it exactly one element for
\* each committed record that is not the feature document, under the
\* record's RecordId and with the record's ident and ns, and none for the
\* feature document; the same holds of an init of whatever records are
\* committed later; getAllCatalogEntries returns, each once, the entries of
\* the collection records the caller sees and none for the feature document,
\* and getAllIdents returns the ident of each of those records and nothing
\* for the feature document.
C21_InitLoadsEveryCollectionRecord ==
    [][/\ (~inited /\ inited') => (map = EmptyMap /\ LoadedFrom(map', store))
       /\ LoadedFrom(init(store', EmptyMap), store')
       /\ \A t \in Threads :
             /\ ReaderReturns(t, "getAllCatalogEntries") =>
                   LET ids == {id \in RecordIds : View(t)[id].kind = "entry"} IN
                   /\ Len(ret'[t].entries) = Cardinality(ids)
                   /\ Range(ret'[t].entries) =
                         {EntryOfRow(id, View(t)[id]) : id \in ids}
             /\ ReaderReturns(t, "getAllIdents") =>
                   /\ \A id \in RecordIds :
                         View(t)[id].kind = "entry" =>
                            View(t)[id].ident \in Range(ret'[t].idents)
                   /\ FeatureDoc.ident \notin Range(ret'[t].idents)
                   /\ (\A id \in RecordIds : View(t)[id].kind # "entry")
                         => ret'[t].idents = << >>]_vars

\* init has loaded the committed collection beside the feature document:
\* the map holds the one and not the other, and getAllCatalogEntries has
\* returned the one entry.
C21_Witness ==
    /\ inited /\ fatal = "none"
    /\ store[2] = FeatureDoc
    /\ map[1] = EntryIdentifier(1, "i1", Nss("a")) /\ ~map[2].present
    /\ calls = 1
    /\ \E t \in Threads :
          /\ ret[t].op = "getAllCatalogEntries"
          /\ ret[t].entries = << map[1] >>

\* How many times x occurs in the sequence s.
Occurrences(s, x) == Cardinality({i \in 1..Len(s) : s[i] = x})

\* The idents a collection record names: its own, then those under idxIdent.
IdentsOfRow(row) ==
    << row.ident >>
    \o (IF row.idx.has
        THEN [i \in 1..Len(row.idx.elems) |-> row.idx.elems[i].ident]
        ELSE << >>)

\* How many times the collection records of rows from id on name x.
RECURSIVE NamedFrom(_, _, _)
NamedFrom(rows, id, x) ==
    IF id > MaxId THEN 0
    ELSE (IF rows[id].kind = "entry" THEN Occurrences(IdentsOfRow(rows[id]), x)
          ELSE 0)
         + NamedFrom(rows, id + 1, x)

\* C22: getAllIdents returns every ident as many times as the collection
\* records the caller sees name it (as their ident or under idxIdent), and
\* nothing that none of them names; the feature document adds nothing.
C22_AllIdentsExactly ==
    [][\A t \in Threads :
         ReaderReturns(t, "getAllIdents") =>
            /\ ret'[t].status = "OK"
            /\ \A x \in Range(ret'[t].idents) : NamedFrom(View(t), 1, x) > 0
            /\ \A id \in RecordIds :
                  View(t)[id].kind = "entry" =>
                     \A x \in Range(IdentsOfRow(View(t)[id])) :
                        Occurrences(ret'[t].idents, x) = NamedFrom(View(t), 1, x)]_vars

\* getAllIdents over the one collection of ident i1 with the index idents
\* idxA and idxB has returned those three.
C22_Witness ==
    \E t \in Threads :
        /\ ret[t].op = "getAllIdents"
        /\ Len(ret[t].idents) = 3
        /\ Range(ret[t].idents) = {"i1", "idxA", "idxB"}
        /\ {id \in RecordIds : View(t)[id].kind = "entry"} = {1}

\* C23: getIndexIdents returns the values under the idxIdent of the record
\* the caller sees under the catalogId, in the order the record has them,
\* and the empty sequence when the record has no idxIdent.
C23_IndexIdentsInRowOrder ==
    [][\A t \in Threads :
         ReaderReturns(t, "getIndexIdents") =>
            LET row == View(t)[call[t].id] IN
            /\ ret'[t].status = "OK" /\ ret'[t].id = call[t].id
            /\ row.idx.has =>
                  /\ Len(ret'[t].idents) = Len(row.idx.elems)
                  /\ \A i \in 1..Len(row.idx.elems) :
                         ret'[t].idents[i] = row.idx.elems[i].ident
            /\ ~row.idx.has => ret'[t].idents = << >>]_vars

\* getIndexIdents of the record with idxIdent {x_1: idxA, y_1: idxB} has
\* returned idxA, idxB.
C23_Witness ==
    \E t \in Threads :
        /\ ret[t].op = "getIndexIdents"
        /\ View(t)[ret[t].id].kind = "entry"
        /\ View(t)[ret[t].id].idx = TwoIndexes
        /\ ret[t].idents = << "idxA", "idxB" >>

\* getIndexIdents of a collection record without idxIdent has returned the
\* empty sequence.
C23_WitnessNoField ==
    \E t \in Threads :
        /\ ret[t].op = "getIndexIdents"
        /\ View(t)[ret[t].id].kind = "entry"
        /\ ~View(t)[ret[t].id].idx.has
        /\ ret[t].idents = << >>

\* The step is a getEntry call failing its invariant.
GetEntryFails(t, id) ==
    /\ fatal = "none" /\ fatal' = "invariantGetEntry"
    /\ call'[t] # call[t] /\ call'[t].op = "getEntry" /\ call'[t].id = id

\* C24: getEntry fails its invariant exactly when the map has no element
\* under the catalogId, whatever took the element away; otherwise it returns
\* the element the map holds, and in both cases the map, the record store,
\* the transactions' writes and registered changes and the physical storage
\* stay as they were.
C24_GetEntryInvariantOrCachedEntry ==
    [][\A t \in Threads : \A id \in RecordIds :
         /\ GetEntryFails(t, id) => ~map[id].present
         /\ GetEntryReturns(t, id) =>
               /\ map[id].present
               /\ ret'[t].status = "OK"
               /\ ret'[t].entries = << map[id] >>
               /\ fatal' = fatal
         /\ (GetEntryFails(t, id) \/ GetEntryReturns(t, id)) =>
               UNCHANGED << map, store, nextId, writes, snap, active, changes,
                            physical, drops, mutex, inited >>]_vars

\* getEntry has failed its invariant on a catalogId whose element another
\* thread's removeEntry took out of the map in a transaction still open: the
\* committed record is still there.
C24_Witness ==
    \E t \in Threads : \E u \in Threads \ {t} :
        /\ fatal = "invariantGetEntry"
        /\ call[t].op = "getEntry" /\ ~map[call[t].id].present
        /\ active[u] /\ ret[u].op = "removeEntry" /\ ret[u].status = "OK"
        /\ ret[u].id = call[t].id
        /\ store[call[t].id].kind = "entry"
        /\ \E i \in 1..Len(changes[u]) :
              changes[u][i].kind = "Reinsert" /\ changes[u][i].id = call[t].id

\* getEntry has failed its invariant on a catalogId that the record store
\* handed to an add whose transaction then aborted: the rollback of the add
\* erased the element, and no record was committed under the catalogId.
C24_WitnessRolledBackAdd ==
    \E t \in Threads : \E u \in Threads :
        /\ fatal = "invariantGetEntry"
        /\ call[t].op = "getEntry" /\ ~map[call[t].id].present
        /\ call[t].id < nextId /\ store[call[t].id].kind = "none"
        /\ ~active[u] /\ ret[u].op = "abort"
        /\ "AddIdent" \in Range(ret[u].ran)

\* The catalogIds that are keys of the map m.
Keys(m) == {id \in RecordIds : m[id].present}

\* C25: _addEntry and _importEntry fail their invariant exactly when the
\* RecordId the insert returned is already a key of the map, and leave the
\* other keys alone when it is not; the record store handing out an id no
\* earlier insert got, every key of the map is an id handed out before, so
\* the invariant fails in no reachable state, aborts and rolled-back
\* removals included.
C25_DuplicateIdInvariant ==
    /\ fatal # "invariantDuplicateId"
    /\ \A id \in Keys(map) : id < nextId /\ map[id].catalogId = id
    /\ \A id \in RecordIds : \A in \in AddInputs :
          LET r == addEntry(map, << >>, id, in.ident, in.nss) IN
          /\ r.fatal = (id \in Keys(map))
          /\ ~r.fatal => Keys(r.map) = Keys(map) \cup {id}
    /\ \A id \in RecordIds : \A in \in ImportInputs :
          LET r == importEntry(map, << >>, id, in.nss, in.row) IN
          /\ r.fatal = (id \in Keys(map))
          /\ ~r.fatal => Keys(r.map) = Keys(map) \cup {id}

\* An add has returned OK after the abort of a transaction whose removal was
\* rolled back: the reinserted entry and the added one are both in the map.
C25_Witness ==
    \E t \in Threads : \E u \in Threads \ {t} :
        /\ fatal = "none"
        /\ ret[t].op \in AddOps /\ ret[t].status = "OK"
        /\ ret[u].op = "abort" /\ "Reinsert" \in Range(ret[u].ran)
        /\ Cardinality(Keys(map)) >= 2 /\ ret[t].id \in Keys(map)

\* An add has returned OK after the abort of a transaction that had added
\* an entry: the abort erased that entry and the new one has a later id.
C25_WitnessAfterAbortedAdd ==
    \E t \in Threads : \E u \in Threads \ {t} :
        /\ fatal = "none"
        /\ ret[t].op \in AddOps /\ ret[t].status = "OK"
        /\ ret[u].op = "abort" /\ "AddIdent" \in Range(ret[u].ran)
        /\ \E id \in RecordIds : id < ret[t].id /\ id \notin Keys(map)
                                  /\ store[id].kind = "none"

\* C26: the commit of a transaction changes nothing of the catalog's: the
\* map after it is the map before it, and no physical storage is dropped.
C26_CommitRunsNoCatalogAction ==
    [][\A t \in Threads :
         Commits(t) =>
            /\ map' = map
            /\ physical' = physical
            /\ drops' = drops
            /\ fatal' = fatal /\ mutex' = mutex]_vars

\* A transaction that imported a collection has committed: its entry is in
\* the map, its record is committed and the imported storage is in place.
C26_Witness ==
    \E t \in Threads :
        /\ ret[t].op = "commit" /\ ~active[t]
        /\ "AddIdent" \in Range(ret[t].ran) /\ "DropImport" \in Range(ret[t].ran)
        /\ \E id \in Keys(map) :
              /\ store[id].kind = "entry" /\ store[id].ident = map[id].ident
              /\ map[id].ident \in physical

\* The catalogIds whose map element the registered changes chs restore, and
\* the idents whose physical storage they drop.
RestoredIds(chs) ==
    {chs[i].id : i \in {j \in 1..Len(chs) :
                           chs[j].kind \in {"AddIdent", "Reinsert", "RenameBack"}}}
DroppedIdents(chs) ==
    UNION {{chs[i].ident} \cup Range(chs[i].idents) :
             i \in {j \in 1..Len(chs) : chs[j].kind \in {"DropIdent", "DropImport"}}}

\* C27 as stated: the rollback of a transaction changes nothing but the map.
C27_RollbackTouchesOnlyTheMap ==
    [][\A t \in Threads :
         Aborts(t) => store' = store /\ physical' = physical]_vars

\* C27, amended: the handlers a rollback runs change the map, at the
\* catalogIds they were registered for, and drop the physical storage of
\* the idents they were registered with (initializeNewEntry's and
\* importCatalogEntry's closures, through the engine); none inserts,
\* updates or deletes a record of the catalog's record store, in the
\* committed records or in another transaction's writes.
C27_RollbackWritesNoRecord ==
    [][\A t \in Threads :
         Aborts(t) =>
            /\ store' = store /\ nextId' = nextId
            /\ \A u \in Threads \ {t} : writes'[u] = writes[u] /\ snap'[u] = snap[u]
            /\ \A id \in RecordIds \ RestoredIds(changes[t]) : map'[id] = map[id]
            /\ physical' \subseteq physical
            /\ physical \ physical' \subseteq DroppedIdents(changes[t])]_vars

\* A transaction that created a collection has aborted: its entry is out of
\* the map and the storage it created is dropped, the committed records
\* being what they were.
C27_Witness ==
    \E t \in Threads :
        /\ ret[t].op = "abort" /\ ~active[t]
        /\ ret[t].ran = << "AddIdent", "DropIdent" >>
        /\ Len(drops[t]) = 1 /\ drops[t][1] \notin physical
        /\ \E id \in RecordIds : id < nextId /\ ~map[id].present /\ store[id].kind = "none"

\* C28: getRawCatalogEntry of a RecordId under which the caller's snapshot
\* has no record returns the empty document, and getIndexIdents of it the
\* empty sequence; neither fails, and no step of either changes the map.
C28_MissingRowIsEmpty ==
    [][\A t \in Threads :
         /\ (ReaderReturns(t, "getRawCatalogEntry")
                /\ View(t)[call[t].id].kind = "none") =>
               /\ ret'[t].status = "OK" /\ ret'[t].id = call[t].id
               /\ ret'[t].row = NoRow
               /\ fatal' = fatal
         /\ (ReaderReturns(t, "getIndexIdents")
                /\ View(t)[call[t].id].kind = "none") =>
               /\ ret'[t].status = "OK" /\ ret'[t].id = call[t].id
               /\ ret'[t].idents = << >>
               /\ fatal' = fatal
         /\ (call'[t].op \in {"getRawCatalogEntry", "getIndexIdents"}
                \/ call[t].op \in {"getRawCatalogEntry", "getIndexIdents"}) =>
               (pc'[t] # pc[t] => map' = map /\ store' = store)]_vars

\* getRawCatalogEntry has returned the empty document inside a transaction
\* whose snapshot has no record under the RecordId, another transaction
\* having committed one since.
C28_Witness ==
    \E t \in Threads :
        /\ ret[t].op = "getRawCatalogEntry" /\ ret[t].status = "OK"
        /\ ret[t].row = NoRow
        /\ active[t] /\ snap[t][ret[t].id].kind = "none"
        /\ store[ret[t].id].kind = "entry" /\ map[ret[t].id].present

\* getIndexIdents has returned the empty sequence for a RecordId under which
\* there is no record.
C28_WitnessIndexIdents ==
    \E t \in Threads :
        /\ ret[t].op = "getIndexIdents" /\ ret[t].status = "OK"
        /\ ret[t].idents = << >>
        /\ ~active[t] /\ store[ret[t].id].kind = "none"
        /\ \E id \in RecordIds : store[id].kind = "entry" /\ store[id].idx = TwoIndexes

\* The step is a write of the spill table answering.
SpillWrite == spillOps' = spillOps + 1
SpillWriteOps ==
    {"insertRecords", "updateRecord", "deleteRecord", "truncate", "rangeTruncate"}

\* The write has failed with OutOfDiskSpace, thrown by deleteRecord and
\* returned by the others, and has left the records as they were.
FailsOutOfDiskSpace ==
    /\ spillRet'.op \in SpillWriteOps
    /\ spillRet'.status = "OutOfDiskSpace"
    /\ spillRet'.threw = (spillRet'.op = "deleteRecord")
    /\ spillRecords' = spillRecords /\ spillNextRid' = spillNextRid

\* C29: every write of a spill table made while the available bytes were
\* below its threshold fails with OutOfDiskSpace, from the first one on and
\* whether or not the disk space monitor has run.
C29_MadeBelowThresholdEveryWriteFails ==
    [][(spillMade /\ madeAt < ThresholdBytes /\ SpillWrite)
          => FailsOutOfDiskSpace]_vars

\* The first write of a spill table made below the threshold has thrown
\* OutOfDiskSpace out of deleteRecord, the monitor not having run.
C29_Witness ==
    /\ spillMade /\ madeAt = ThresholdBytes - 1
    /\ ~ranBelow /\ ~ranAt
    /\ spillOps = 1
    /\ spillRet = SpillRet("deleteRecord", "OutOfDiskSpace", TRUE)

\* All the writes called on a spill table made below the threshold have
\* failed, the last of them a rangeTruncate, the monitor not having run.
C29_WitnessLater ==
    /\ spillMade /\ madeAt = ThresholdBytes - 1
    /\ ~ranBelow /\ ~ranAt
    /\ spillOps = MaxSpillOps /\ spillNextRid = 1
    /\ spillRet = SpillRet("rangeTruncate", "OutOfDiskSpace", FALSE)

\* The write has succeeded and has had its effect on the records.
Succeeds ==
    /\ spillRet'.op \in SpillWriteOps
    /\ spillRet'.status = "OK" /\ ~spillRet'.threw
    /\ spillRet'.op = "insertRecords" =>
          /\ spillRecords[spillNextRid] = "none"
          /\ spillRecords'[spillNextRid] \in SpillData
          /\ spillNextRid' = spillNextRid + 1
    /\ spillRet'.op = "truncate" => spillRecords' = NoSpillRecords
    /\ spillRet'.op \in {"deleteRecord", "rangeTruncate"} =>
          \A rid \in SpillRids : spillRecords'[rid] \in {"none", spillRecords[rid]}

\* C30: the writes of a spill table made while the available bytes were
\* above its threshold succeed as long as the disk space monitor has not run
\* with the available bytes at or below the threshold, whatever the bytes
\* available are meanwhile; once the monitor has run its actions with the
\* available bytes below the threshold every write fails with
\* OutOfDiskSpace, whatever the bytes available become.
C30_MadeAboveThresholdFailsOnceMonitorRanBelow ==
    [][(spillMade /\ madeAt > ThresholdBytes /\ SpillWrite) =>
          /\ (~ranBelow /\ ~ranAt) => Succeeds
          /\ ranBelow => FailsOutOfDiskSpace]_vars

\* A spill table made above the threshold has taken a record, the available
\* bytes have fallen below the threshold, the monitor has run, and the next
\* write has failed with OutOfDiskSpace, the record being still there.
C30_Witness ==
    /\ spillMade /\ madeAt = ThresholdBytes + 1
    /\ ranBelow /\ ~ranAt
    /\ spillOps >= 2 /\ spillNextRid = 2 /\ spillRecords[1] \in SpillData
    /\ spillRet = SpillRet("updateRecord", "OutOfDiskSpace", FALSE)

\* A write of a spill table made above the threshold has succeeded with the
\* available bytes below the threshold, the monitor not having run.
C30_WitnessBeforeMonitor ==
    /\ spillMade /\ madeAt = ThresholdBytes + 1
    /\ availableBytes = ThresholdBytes - 1
    /\ ~ranBelow /\ ~ranAt
    /\ spillRet = SpillRet("insertRecords", "OK", FALSE)

\* Writes go on failing after the available bytes have risen above the
\* threshold again.
C30_WitnessStaysFull ==
    /\ spillMade /\ madeAt = ThresholdBytes + 1
    /\ ranBelow /\ availableBytes = ThresholdBytes + 1
    /\ spillOps = 1
    /\ spillRet = SpillRet("truncate", "OutOfDiskSpace", FALSE)

\* The step belongs to thread t's getNSSFromCatalog: the lookup in the map,
\* answered or missed, or the answer from the record store.
GetNSSStep(t) ==
    \/ \E id \in RecordIds : GetNSSCachedReturns(t, id)
    \/ pc[t] = "idle" /\ pc'[t] = "cursor" /\ call'[t].op = "getNSSFromCatalog"
    \/ pc[t] = "cursor" /\ call[t].op = "getNSSFromCatalog" /\ pc'[t] = "idle"

\* The step is thread t's getNSSFromCatalog answering from the record store.
GetNSSReadReturns(t) ==
    pc[t] = "cursor" /\ call[t].op = "getNSSFromCatalog" /\ pc'[t] = "idle"

\* C31: no step of getNSSFromCatalog changes the map (nor the record store,
\* the writes or the registered changes); when it answers from the record
\* store for a catalogId the map does not hold, the map does not hold it
\* afterwards either, and getEntry of it fails its invariant as before.
C31_GetNSSLeavesMap ==
    [][\A t \in Threads :
         /\ GetNSSStep(t) =>
               UNCHANGED << map, store, nextId, writes, changes, physical, mutex >>
         /\ (GetNSSReadReturns(t) /\ ~map[call[t].id].present) =>
               /\ ~map'[call[t].id].present
               /\ getEntry(map', call[t].id).fatal]_vars

\* getNSSFromCatalog has answered with the namespace of a record it read
\* from the record store, and the map still has no element under the
\* catalogId: getEntry of it fails.
C31_Witness ==
    \E t \in Threads :
        /\ ret[t].op = "getNSSFromCatalog" /\ ret[t].status = "OK"
        /\ rsResult[t] = "OK"
        /\ View(t)[ret[t].id].kind = "entry"
        /\ ret[t].arg.nss = parseFromString(View(t)[ret[t].id].ns)
        /\ ~map[ret[t].id].present
        /\ getEntry(map, ret[t].id).fatal

\* The step is deleteRecord throwing out of thread t's removeEntry.
RemoveThrows(t) ==
    pc[t] = "deleteRecord" /\ rsResult'[t] = "WriteConflictException"

\* Thread t's last call was a removeEntry of id that deleteRecord threw out
\* of, and the closure it registered is the last registered change.
RemoveThrew(t, id) ==
    /\ active[t]
    /\ ret[t].op = "removeEntry" /\ ret[t].status = "WriteConflictException"
    /\ ret[t].id = id
    /\ changes[t] # << >>
    /\ changes[t][Len(changes[t])].kind = "Reinsert"
    /\ changes[t][Len(changes[t])].id = id

\* C32: when deleteRecord throws out of removeEntry the map is what it was
\* on entry, the element still under the catalogId, the lock released, no
\* record written, and the closure registered before deleteRecord holds that
\* element; when the transaction then aborts, the element not having been
\* changed meanwhile, the closure stores the same element again: the
\* catalogId keeps it, and where the closure is the transaction's only
\* registered change the whole map is what it was.
C32_DeleteThrowsEntryStays ==
    [][\A t \in Threads :
         /\ RemoveThrows(t) =>
               LET id == call[t].id IN
               /\ map' = map /\ map'[id].present
               /\ writes' = writes /\ store' = store
               /\ mutex = t /\ mutex' = NoThread
               /\ doomed'[t]
               /\ ret'[t].op = "removeEntry" /\ ret'[t].id = call[t].id
               /\ ret'[t].status = "WriteConflictException"
               /\ changes'[t] = changes[t] /\ changes[t] # << >>
               /\ changes[t][Len(changes[t])].kind = "Reinsert"
               /\ changes[t][Len(changes[t])].id = call[t].id
               /\ changes[t][Len(changes[t])].entry = map[call[t].id]
         /\ \A id \in RecordIds :
              (Aborts(t) /\ RemoveThrew(t, id)
                 /\ map[id] = changes[t][Len(changes[t])].entry) =>
                 /\ removeEntryRollback(map, id, changes[t][Len(changes[t])].entry) = map
                 /\ map'[id] = map[id]
                 /\ Len(changes[t]) = 1 => map' = map]_vars

\* deleteRecord has thrown out of a removeEntry: the element is in the map
\* and the closure that would store it again is registered.
C32_Witness ==
    \E t \in Threads : \E id \in RecordIds :
        /\ RemoveThrew(t, id) /\ doomed[t]
        /\ rsResult[t] = "WriteConflictException"
        /\ map[id].present /\ map[id] = changes[t][Len(changes[t])].entry
        /\ mutex = NoThread

\* The transaction of such a removeEntry has aborted, its closure has run,
\* and the element is in the map as before.
C32_WitnessAborted ==
    \E t \in Threads :
        /\ ret[t].op = "abort" /\ ret[t].ran = << "Reinsert" >>
        /\ rsResult[t] = "WriteConflictException"
        /\ \E id \in RecordIds : map[id].present /\ store[id].kind = "entry"

\* The step is updateRecord answering thread t's putRenamedEntry for
\* catalogId id, the method then returning, throwing or terminating the
\* process.
RenameAnswers(t, id) ==
    /\ pc[t] = "updateRecord" /\ call[t].op = "putRenamedEntry"
    /\ rsResult'[t] # rsResult[t]
    /\ IF fatal' # "none" THEN call'[t].id = id ELSE ret'[t].id = id

\* C33 as stated: putRenamedEntry of a catalogId the map does not hold
\* terminates the process, the map, the registered changes and the records
\* written being what they were.
C33_RenameAbsentFatalNothingWritten ==
    [][\A t \in Threads : \A id \in RecordIds :
         (RenameAnswers(t, id) /\ ~map[id].present) =>
            /\ fatal' # "none"
            /\ map' = map /\ changes' = changes
            /\ writes' = writes]_vars

\* C33, amended: putRenamedEntry of a catalogId the map does not hold never
\* returns OK, changes no element of the map and registers no change.
\* updateRecord comes first: when it returns a failure fassert(28522)
\* terminates the process, when it throws WriteConflictException the
\* exception leaves the method, and when it succeeds (a record is under the
\* catalogId, the feature document for one) the record is overwritten in the
\* caller's uncommitted transaction and then the invariant terminates the
\* process, so that the record written is never committed.
C33_RenameAbsentNeverReturnsOK ==
    [][\A t \in Threads : \A id \in RecordIds :
         (RenameAnswers(t, id) /\ ~map[id].present) =>
            /\ map' = map /\ changes' = changes /\ store' = store
            /\ ~(pc'[t] = "idle" /\ ret'[t].status = "OK")
            /\ \/ fatal' = "invariant" /\ rsResult'[t] = "OK"
               \/ fatal' = "fassert28522"
                    /\ rsResult'[t] \notin {"OK", "WriteConflictException"}
               \/ fatal' = "none" /\ rsResult'[t] = "WriteConflictException"
                    /\ doomed'[t] /\ pc'[t] = "idle"
            /\ fatal' = "invariant" =>
                  /\ View(t)[id].kind # "none"
                  /\ writes'[t][id].kind = "entry"
                  /\ writes' = [writes EXCEPT ![t][id] = writes'[t][id]]
            /\ fatal' # "invariant" => writes' = writes]_vars

\* putRenamedEntry of the feature document's RecordId, which the map does
\* not hold, has failed its invariant after overwriting the record in the
\* caller's transaction; no change is registered.
C33_Witness ==
    \E t \in Threads :
        /\ fatal = "invariant" /\ call[t].op = "putRenamedEntry"
        /\ ~map[call[t].id].present
        /\ store[call[t].id] = FeatureDoc
        /\ writes[t][call[t].id].kind = "entry"
        /\ changes[t] = << >>

\* putRenamedEntry of a catalogId that the same transaction removed has
\* ended in fassert(28522), updateRecord finding no record.
C33_WitnessRemovedBefore ==
    \E t \in Threads :
        /\ fatal = "fassert28522" /\ call[t].op = "putRenamedEntry"
        /\ ~map[call[t].id].present
        /\ rsResult[t] = "NoSuchKey"
        /\ writes[t][call[t].id] = Deleted
        /\ Len(changes[t]) = 1 /\ changes[t][1].kind = "Reinsert"
        /\ changes[t][1].id = call[t].id

\* The step is updateRecord answering thread t's putUpdatedEntry for
\* catalogId id.
UpdateEntryAnswers(t, id) ==
    /\ pc[t] = "updateRecord" /\ call[t].op = "putUpdatedEntry"
    /\ rsResult'[t] # rsResult[t]
    /\ IF fatal' # "none" THEN call'[t].id = id ELSE ret'[t].id = id

\* The record row names the ident and the namespace of the map element e.
Describes(row, e) ==
    row.kind = "entry" /\ row.ident = e.ident /\ parseFromString(row.ns) = e.nss

\* C34: putUpdatedEntry changes neither the map nor the registered changes
\* nor any record but the one under its catalogId, which on success is the
\* document it was given, in the caller's transaction; where the record
\* named the ident and the namespace of the map element before the call, it
\* does so after the call exactly when the document has the ident and the
\* namespace the record had.
C34_UpdateWritesRecordOnly ==
    [][\A t \in Threads : \A id \in RecordIds :
         UpdateEntryAnswers(t, id) =>
            /\ map' = map /\ changes' = changes /\ store' = store
            /\ physical' = physical /\ mutex' = mutex
            /\ writes' = [writes EXCEPT ![t][id] = writes'[t][id]]
            /\ rsResult'[t] # "OK" => writes' = writes
            /\ (rsResult'[t] = "OK" /\ map[id].present) =>
                  LET old == View(t)[id]
                      new == writes'[t][id]
                  IN /\ new.kind = "entry"
                     /\ pc'[t] = "idle" /\ ret'[t].status = "OK"
                     /\ Describes(old, map[id]) =>
                           (Describes(new, map'[id]) <=>
                               /\ new.ident = old.ident
                               /\ parseFromString(new.ns) = parseFromString(old.ns))]_vars

\* putUpdatedEntry has written a document with another namespace and its
\* transaction has committed: the record says db.b and the map element db.a.
C34_Witness ==
    \E t \in Threads : \E id \in RecordIds :
        /\ ret[t].op = "commit" /\ rsResult[t] = "OK" /\ calls = 1
        /\ map[id].present /\ map[id].nss = Nss("a")
        /\ store[id].kind = "entry" /\ store[id].ns = "db.b"
        /\ store[id].ident = map[id].ident
        /\ mismatch

\* putUpdatedEntry has written a document that keeps ident and ns: the
\* record still names what the map element holds.
C34_WitnessAgrees ==
    \E t \in Threads : \E id \in RecordIds :
        /\ ret[t].op = "putUpdatedEntry" /\ ret[t].status = "OK" /\ ret[t].id = id
        /\ active[t] /\ writes[t][id].kind = "entry"
        /\ writes[t][id] # store[id]
        /\ Describes(writes[t][id], map[id]) /\ map[id].present

\* The step is thread t's call of op returning after its insertRecord
\* succeeded.
Inserted(t, op) ==
    /\ pc[t] = "insertRecord" /\ call[t].op = op
    /\ pc'[t] = "idle" /\ fatal' = "none" /\ rsResult'[t] = "OK"

\* The last change thread t has registered after the step.
LastChange(t) == changes'[t][Len(changes'[t])]

\* C35: importCatalogEntry caches the ident of the document and the
\* namespace of the caller, imports the storage of that ident and of the
\* document's index idents and registers their drop; addOrphanedEntry and
\* initializeNewEntry cache the ident and the namespace of the caller
\* whatever the document says, initializeNewEntry creating the storage of
\* that ident and registering its drop, addOrphanedEntry touching no
\* storage.
C35_CachedIdentNamesTheStorage ==
    [][\A t \in Threads :
         LET id == ret'[t].id
             row == writes'[t][id]
             arg == ret'[t].arg
         IN
         /\ Inserted(t, "importCatalogEntry") =>
               /\ map'[id] = EntryIdentifier(id, row.ident, arg.nss)
               /\ LastChange(t).kind = "DropImport"
               /\ LastChange(t).ident = map'[id].ident
               /\ << LastChange(t).ident >> \o LastChange(t).idents = IdentsOfRow(row)
               /\ physical \subseteq physical'
               /\ physical' \subseteq physical \cup Range(IdentsOfRow(row))
               /\ map'[id].ident \notin physical' => physical' = physical
               /\ ret'[t].status = "OK" => Range(IdentsOfRow(row)) \subseteq physical'
         /\ Inserted(t, "initializeNewEntry") =>
               /\ map'[id] = EntryIdentifier(id, arg.ident, arg.nss)
               /\ ret'[t].status = "OK" =>
                     /\ physical' = physical \cup {map'[id].ident}
                     /\ LastChange(t).kind = "DropIdent"
                     /\ LastChange(t).ident = map'[id].ident
               /\ ret'[t].status # "OK" =>
                     physical' = physical /\ LastChange(t).kind = "AddIdent"
         /\ Inserted(t, "addOrphanedEntry") =>
               /\ map'[id] = EntryIdentifier(id, arg.ident, arg.nss)
               /\ physical' = physical
               /\ LastChange(t).kind = "AddIdent" /\ LastChange(t).id = id]_vars

\* initializeNewEntry has cached and created the ident i2 it was given with
\* a document that says i1.
C35_Witness ==
    \E t \in Threads :
        /\ ret[t].op = "initializeNewEntry" /\ ret[t].status = "OK"
        /\ map[ret[t].id] = EntryIdentifier(ret[t].id, "i2", Nss("b"))
        /\ writes[t][ret[t].id].ident = "i1"
        /\ writes[t][ret[t].id].ns = "db.a"
        /\ "i2" \in physical /\ "i1" \notin physical

\* importCatalogEntry has cached the ident of the document under the
\* caller's namespace, which is not the document's, and imported the
\* storage of that ident.
C35_WitnessImport ==
    \E t \in Threads :
        /\ ret[t].op = "importCatalogEntry" /\ ret[t].status = "OK"
        /\ map[ret[t].id] = EntryIdentifier(ret[t].id, "i1", Nss("a"))
        /\ writes[t][ret[t].id].ns = "db.b"
        /\ "i1" \in physical

\* The process has not terminated on a failed invariant or fassert.
Running == fatal = "none"

\* C36: a thread that holds the Entry Index mutex is inside removeEntry's
\* deleteRecord, where its next step takes no lock; with fair scheduling,
\* unless the process terminates, no thread holds the mutex for ever and no
\* call, whether or not its next step needs the mutex, stays in progress
\* for ever: every holder releases it and every requester gets it.
C36_MutexAlwaysReleased ==
    /\ [](\A t \in Threads :
            mutex = t => pc[t] = "deleteRecord" /\ call[t].op = "removeEntry")
    /\ \A t \in Threads : []<>(mutex # t \/ ~Running)
    /\ \A t \in Threads : []<>(pc[t] = "idle" \/ ~Running)

\* A thread holds the mutex in removeEntry while the other thread's call is
\* at a step that needs it.
C36_Witness ==
    \E t \in Threads : \E u \in Threads \ {t} :
        /\ mutex = t
        /\ pc[u] \in {"insertRecord", "updateRecord"} /\ Running

\* A thread holds the mutex in removeEntry while the other thread's
\* transaction has rollback handlers that take it.
C36_WitnessHandlerWaits ==
    \E t \in Threads : \E u \in Threads \ {t} :
        /\ mutex = t
        /\ Idle(u) /\ active[u] /\ NeedsMapLock(changes[u])

\* removeEntry's deleteRecord has thrown and the mutex is free again.
C36_WitnessThrown ==
    \E t \in Threads :
        /\ ret[t].op = "removeEntry" /\ ret[t].status = "WriteConflictException"
        /\ pc[t] = "idle" /\ mutex = NoThread /\ Running

\* The step is thread t's getIndexIdent(id, name) handing back its answer.
GetIndexIdentAnswers(t, id, name) ==
    /\ pc[t] = "cursor" /\ call[t].op = "getIndexIdent" /\ call[t].id = id
    /\ pc'[t] = "idle" /\ ret'[t].idxName = name

\* The idents the elements named name have in the idxIdent object.
Associated(idx, name) ==
    {idx.elems[i].ident : i \in {j \in 1..Len(idx.elems) : idx.elems[j].name = name}}

\* C37: getIndexIdent(catalogId, indexName) returns the ident the record's
\* idxIdent associates with indexName; returns the empty string when
\* idxIdent is there and empty; and leaves with an exception, returning
\* nothing, when idxIdent is not empty and has no element of that name or
\* when the record has no idxIdent.
C37_GetIndexIdentAnswer ==
    [][\A t \in Threads, id \in RecordIds, name \in IndexNames :
         GetIndexIdentAnswers(t, id, name) =>
            LET idx == View(t)[id].idx
                r == ret'[t]
            IN /\ (idx.has /\ Associated(idx, name) # {}) =>
                     r.status = "OK" /\ Associated(idx, name) = {r.identForIndex}
               /\ (idx.has /\ idx.elems = << >>) =>
                     r.status = "OK" /\ r.identForIndex = ""
               /\ (idx.has /\ idx.elems # << >> /\ Associated(idx, name) = {}) =>
                     r.status \notin {"OK", "none"}
               /\ ~idx.has => r.status \notin {"OK", "none"}]_vars

\* getIndexIdent has returned the ident of the second index of the record.
C37_Witness ==
    \E t \in Threads :
        /\ ret[t].op = "getIndexIdent" /\ ret[t].status = "OK"
        /\ ret[t].idxName = "y_1" /\ ret[t].identForIndex = "idxB"

\* getIndexIdent has returned the empty string for a record whose idxIdent
\* is empty.
C37_WitnessEmpty ==
    \E t \in Threads :
        /\ ret[t].op = "getIndexIdent" /\ ret[t].status = "OK"
        /\ ret[t].identForIndex = ""
        /\ View(t)[ret[t].id].idx = IdxObj(<< >>)

\* getIndexIdent has failed on a name idxIdent does not have.
C37_WitnessNoSuchIndex ==
    \E t \in Threads :
        /\ ret[t].op = "getIndexIdent" /\ ret[t].status = "exception13111"
        /\ ret[t].idxName = "z_1"
        /\ View(t)[ret[t].id].idx = TwoIndexes

\* getIndexIdent has failed on an entry's record that has no idxIdent.
C37_WitnessNoIdxIdent ==
    \E t \in Threads :
        /\ ret[t].op = "getIndexIdent" /\ ret[t].status = "exception10065"
        /\ View(t)[ret[t].id].kind = "entry"
        /\ ~View(t)[ret[t].id].idx.has
====
